---- MODULE Spec2Model ----
(***************************************************************************)
(* The atomic operation engine (src/src/utils/atomicEngine.ts) and the     *)
(* presentation store that owns it (src/src/stores/presentation.ts).       *)
(*                                                                         *)
(* A document is a record [slides, theme, metadata].  A slide is a record  *)
(* with a positive id; the two values JavaScript can leave in the slide    *)
(* array in place of a slide (undefined from an out-of-range index, null   *)
(* after a JSON round trip) are the records UndefinedSlide and NullSlide.  *)
(* Optional properties are keys that may be missing from a record; a       *)
(* property that is present and holds undefined has the value "undefined". *)
(***************************************************************************)
EXTENDS Integers, Sequences, FiniteSets, TLC

VARIABLES
    presentation,       \* presentation.value, the live document
    history,            \* history.value: [past, future]
    operationHistory,   \* the current engine's operationHistory
    pending,            \* execute() calls suspended at their await, FIFO
    emitted,            \* calls of fetch('/api/operations'), in call order
    snapLog,            \* listener calls of saveToHistory(), in call order
    now,                \* the value Date.now() returns
    nextId,             \* the next value uuidv4() returns
    opCount,            \* number of execute() calls issued so far
    docCount,           \* number of newPresentation() and loadPresentation() calls so far
    extraCalls,         \* number of undo() and direct saveToHistory() calls so far
    last,               \* the last store call: what it was, its input, its outcome
    inflight,           \* calls whose fetch('/api/operations') has not settled
    warnings,           \* what console.warn was called with, in call order
    refs,               \* which object the live document and each history entry is
    processor,          \* atomicProcessor: its components, its history, its last call
    validated,          \* the last call of AtomicOperationValidator.validate
    canvas,             \* canvas.value: activeSlide
    sequence            \* the aiStore's executeOperationSequence call: its atoms, its position

vars == <<presentation, history, operationHistory, pending, emitted, snapLog,
          now, nextId, opCount, docCount, extraCalls, last, inflight, warnings, refs,
          processor, validated, canvas, sequence>>

\* the state of the component validator and processor, which the store and
\* the engine never touch
componentVars == <<processor, validated>>

-----------------------------------------------------------------------------
(* Bounds of the model *)

MaxOps == 2
MaxDocs == 1
MaxNow == 1
MaxPending == 2
MaxOpsEngine == 1
MaxDocsEngine == 1
MaxOpsHist == 52
MaxExtra == 1
MaxOpsTelemetry == 2
MaxExtraHist == 2
MaxOpsUndo == 2
MaxOpsReorder == 2
MaxDocsReorder == 1
MaxUndo == 2
MaxOpsProcessor == 3
MaxOpsRepeat == 2
MaxOpsCanvas == 2
MaxUndoCanvas == 2
MaxDocsCanvas == 1
MaxDocsRepeat == 1

(* Program constants *)

HistoryLimit == 50

-----------------------------------------------------------------------------
(* Sequences and objects as JavaScript handles them *)

RemoveAt(s, i) == SubSeq(s, 1, i - 1) \o SubSeq(s, i + 1, Len(s))

InsertAt(s, i, x) == SubSeq(s, 1, i - 1) \o <<x>> \o SubSeq(s, i, Len(s))

Min(a, b) == IF a < b THEN a ELSE b

Max(a, b) == IF a > b THEN a ELSE b

HasKey(obj, k) == k \in DOMAIN obj

\* obj.k is truthy, for a property that holds a number when present
TruthyNumber(obj, k) == HasKey(obj, k) /\ obj[k] # 0

\* obj.k is truthy, for a property that holds a string when present
TruthyString(obj, k) == HasKey(obj, k) /\ obj[k] \notin {"undefined", ""}

ObjectAssign(obj, changes) ==
    [k \in (DOMAIN obj) \cup (DOMAIN changes) |->
        IF k \in DOMAIN changes THEN changes[k] ELSE obj[k]]

DropKey(obj, k) == [j \in (DOMAIN obj) \ {k} |-> obj[j]]

UndefinedSlide == [id |-> 0]

NullSlide == [id |-> -1]

IsSlide(s) == s.id > 0

\* slides[index] for a JavaScript number index (0-based)
SlideAt(slides, index) ==
    IF index >= 0 /\ index < Len(slides) THEN slides[index + 1] ELSE UndefinedSlide

\* array.splice(start, deleteCount) start normalisation
SpliceStart(len, start) ==
    IF start < 0 THEN Max(len + start, 0) ELSE Min(start, len)

ElementIds(slide) == {slide.elements[i].id : i \in 1..Len(slide.elements)}

AllElementIds(doc) ==
    UNION {IF IsSlide(doc.slides[i]) THEN ElementIds(doc.slides[i]) ELSE {} :
           i \in 1..Len(doc.slides)}

-----------------------------------------------------------------------------
(* JSON.parse(JSON.stringify(x)): properties holding undefined are dropped, *)
(* undefined array entries become null                                      *)

\* the properties that hold a string (or undefined) in this model
StringKeys == {"type", "layout", "template", "name", "colors", "fonts", "slideType"}

JsonCloneObject(obj) ==
    [k \in {j \in DOMAIN obj : ~(j \in StringKeys /\ obj[j] = "undefined")} |-> obj[k]]

JsonCloneSlide(s) ==
    IF ~IsSlide(s) THEN NullSlide
    ELSE JsonCloneObject(
            [s EXCEPT !.elements =
                [i \in 1..Len(s.elements) |-> JsonCloneObject(s.elements[i])]])

JsonClone(doc) ==
    [doc EXCEPT !.slides = [i \in 1..Len(doc.slides) |-> JsonCloneSlide(doc.slides[i])],
                !.theme = JsonCloneObject(doc.theme)]

-----------------------------------------------------------------------------
(* operation.data is optional: a missing payload is the record NoData     *)

NoData == [absent |-> TRUE]

IsUndefined(data) == HasKey(data, "absent")

-----------------------------------------------------------------------------
(* Results of the engine's methods.  A call either returns a value or      *)
(* throws; the document it leaves behind is part of the outcome either way *)

Return(v, id) == [kind |-> "return", value |-> v, id |-> id]

Throw(e) == [kind |-> "throw", value |-> e, id |-> 0]

Bool(b) == Return(IF b THEN "true" ELSE "false", 0)

Outcome(doc, res, nid) == [doc |-> doc, res |-> res, nid |-> nid]

Threw(res) == res.kind = "throw"

-----------------------------------------------------------------------------
(* atomicEngine.ts: element constructors *)

BaseElement(id, type, data, w, h) ==
    [id |-> id, type |-> type, left |-> data.x, top |-> data.y,
     width |-> w, height |-> h, rotate |-> 0]

createTextElement(data, id) ==
    BaseElement(id, "text", data,
                IF TruthyNumber(data, "width") THEN data.width ELSE 400,
                IF TruthyNumber(data, "height") THEN data.height ELSE 100)

createImageElement(data, id) ==
    BaseElement(id, "image", data, data.width, data.height)

createShapeElement(data, id) ==
    BaseElement(id, "shape", data, data.width, data.height)

createChartElement(data, id) ==
    BaseElement(id, "chart", data, data.width, data.height)

createTableElement(data, id) ==
    BaseElement(id, "table", data,
                IF TruthyNumber(data, "width") THEN data.width ELSE 600,
                IF TruthyNumber(data, "height") THEN data.height ELSE 400)

AddTypes == {"text", "image", "shape", "chart", "table"}

\* the switch of executeAdd over operation.type
NewElement(type, data, id) ==
    CASE type = "text"  -> createTextElement(data, id)
      [] type = "image" -> createImageElement(data, id)
      [] type = "shape" -> createShapeElement(data, id)
      [] type = "chart" -> createChartElement(data, id)
      [] type = "table" -> createTableElement(data, id)

\* createElementFromData: null for every type but text, image and shape
FromDataTypes == {"text", "image", "shape"}

createElementFromData(data, id) ==
    CASE data.type = "text"  -> createTextElement(data, id)
      [] data.type = "image" -> createImageElement(data, id)
      [] data.type = "shape" -> createShapeElement(data, id)

-----------------------------------------------------------------------------
(* atomicEngine.ts: ADD *)

\* executeAdd that answers false for a missing slide, as the other kinds do
executeAddReturnsFalse(doc, operation, t, nid) ==
    LET slideIndex == operation.target
        slide == SlideAt(doc.slides, slideIndex)
    IN  IF ~IsSlide(slide) THEN Outcome(doc, Bool(FALSE), nid)
        ELSE IF operation.type \notin AddTypes
             THEN Outcome(doc, Throw("Unsupported"), nid)
        ELSE IF IsUndefined(operation.data)
             THEN Outcome(doc, Throw("TypeError"), nid + 1)
        ELSE LET element == NewElement(operation.type, operation.data, nid)
                 slide2 == [slide EXCEPT !.elements = Append(@, element),
                                         !.updatedAt = t]
             IN  Outcome([doc EXCEPT !.slides[slideIndex + 1] = slide2],
                         Return("element", element.id), nid + 1)

\* executeAdd that names the new element after the slide's element count
executeAddCountsIds(doc, operation, t, nid) ==
    LET slideIndex == operation.target
        slide == SlideAt(doc.slides, slideIndex)
    IN  IF ~IsSlide(slide) THEN Outcome(doc, Throw("NotFound"), nid)
        ELSE IF operation.type \notin AddTypes
             THEN Outcome(doc, Throw("Unsupported"), nid)
        ELSE IF IsUndefined(operation.data)
             THEN Outcome(doc, Throw("TypeError"), nid + 1)
        ELSE LET element == NewElement(operation.type, operation.data,
                                       200 + Len(slide.elements) + 1)
                 slide2 == [slide EXCEPT !.elements = Append(@, element),
                                         !.updatedAt = t]
             IN  Outcome([doc EXCEPT !.slides[slideIndex + 1] = slide2],
                         Return("element", element.id), nid + 1)

executeAdd(doc, operation, t, nid) ==
    LET slideIndex == operation.target
        slide == SlideAt(doc.slides, slideIndex)
    IN  IF ~IsSlide(slide) THEN Outcome(doc, Throw("NotFound"), nid)
        ELSE IF operation.type \notin AddTypes
             THEN Outcome(doc, Throw("Unsupported"), nid)
        ELSE IF IsUndefined(operation.data)
             THEN Outcome(doc, Throw("TypeError"), nid + 1)
        ELSE LET element == NewElement(operation.type, operation.data, nid)
                 slide2 == [slide EXCEPT !.elements = Append(@, element),
                                         !.updatedAt = t]
             IN  Outcome([doc EXCEPT !.slides[slideIndex + 1] = slide2],
                         Return("element", element.id), nid + 1)

-----------------------------------------------------------------------------
(* atomicEngine.ts: REMOVE *)

\* findIndex(el => el.id === elementId), 1-based, 0 when there is none
FindIndex(elements, elementId) ==
    IF \E i \in 1..Len(elements) : elements[i].id = elementId
    THEN CHOOSE i \in 1..Len(elements) :
            /\ elements[i].id = elementId
            /\ \A j \in 1..(i - 1) : elements[j].id # elementId
    ELSE 0

\* the for-of loop of removeElementById from slide i on; reading .elements
\* of an entry that is not a slide is a TypeError
RECURSIVE RemoveScan(_, _, _, _)
RemoveScan(doc, elementId, i, t) ==
    IF i > Len(doc.slides) THEN [doc |-> doc, res |-> Bool(FALSE)]
    ELSE IF ~IsSlide(doc.slides[i]) THEN [doc |-> doc, res |-> Throw("TypeError")]
    ELSE LET index == FindIndex(doc.slides[i].elements, elementId)
         IN  IF index # 0
             THEN [doc |-> [doc EXCEPT !.slides[i].elements = RemoveAt(@, index),
                                       !.slides[i].updatedAt = t],
                   res |-> Bool(TRUE)]
             ELSE RemoveScan(doc, elementId, i + 1, t)

removeElementById(doc, elementId, t) == RemoveScan(doc, elementId, 1, t)

\* elementIds.every(id => f(id)): stops at the first false, a throw escapes
RECURSIVE EveryRemove(_, _, _, _)
EveryRemove(doc, elementIds, k, t) ==
    IF k > Len(elementIds) THEN [doc |-> doc, res |-> Bool(TRUE)]
    ELSE LET r == removeElementById(doc, elementIds[k], t)
         IN  IF r.res = Bool(TRUE) THEN EveryRemove(r.doc, elementIds, k + 1, t)
             ELSE r

removeAllElementsOfType(doc, slideIndex, elementType, t) ==
    LET slide == SlideAt(doc.slides, slideIndex)
    IN  IF ~IsSlide(slide) THEN [doc |-> doc, res |-> Bool(FALSE)]
        ELSE LET initialLength == Len(slide.elements)
                 kept == SelectSeq(slide.elements, LAMBDA el : el.type # elementType)
             IN  [doc |-> [doc EXCEPT !.slides[slideIndex + 1].elements = kept,
                                      !.slides[slideIndex + 1].updatedAt = t],
                  res |-> Bool(Len(kept) < initialLength)]

executeRemove(doc, operation, t, nid) ==
    LET r == CASE operation.type = "element" ->
                    removeElementById(doc, operation.target, t)
               [] operation.type = "elements" ->
                    EveryRemove(doc, operation.targets, 1, t)
               [] operation.type = "all" ->
                    removeAllElementsOfType(doc, operation.target,
                        IF HasKey(operation.data, "elementType")
                        THEN operation.data.elementType ELSE "undefined", t)
               [] OTHER -> [doc |-> doc, res |-> Bool(FALSE)]
    IN  Outcome(r.doc, r.res, nid)

-----------------------------------------------------------------------------
(* atomicEngine.ts: MODIFY *)

\* the for-of loop of modifyElement from slide i on
RECURSIVE ModifyScan(_, _, _, _, _)
ModifyScan(doc, elementId, changes, i, t) ==
    IF i > Len(doc.slides) THEN [doc |-> doc, res |-> Bool(FALSE)]
    ELSE IF ~IsSlide(doc.slides[i]) THEN [doc |-> doc, res |-> Throw("TypeError")]
    ELSE LET index == FindIndex(doc.slides[i].elements, elementId)
         IN  IF index # 0
             THEN [doc |-> [doc EXCEPT
                              !.slides[i].elements[index] =
                                  IF IsUndefined(changes) THEN @
                                  ELSE ObjectAssign(@, changes),
                              !.slides[i].updatedAt = t],
                   res |-> Bool(TRUE)]
             ELSE ModifyScan(doc, elementId, changes, i + 1, t)

\* modifyElement that moves the element by changes.left where the code
\* assigns changes.left
modifyElementMovesBy(doc, elementId, changes, t) ==
    LET r == ModifyScan(doc, elementId, changes, 1, t)
        moved(el) == IF el.id = elementId /\ HasKey(el, "left")
                     THEN [el EXCEPT !.left = @ + 1] ELSE el
    IN  [doc |-> [r.doc EXCEPT !.slides =
                    [i \in 1..Len(@) |->
                        IF IsSlide(@[i])
                        THEN [@[i] EXCEPT !.elements =
                                 [k \in 1..Len(@) |-> moved(@[k])]]
                        ELSE @[i]]],
         res |-> r.res]

\* modifyElement that reports success when no slide holds the element
modifyElementReportsSuccess(doc, elementId, changes, t) ==
    LET r == ModifyScan(doc, elementId, changes, 1, t)
    IN  IF r.res = Bool(FALSE) THEN [doc |-> r.doc, res |-> Bool(TRUE)] ELSE r

modifyElement(doc, elementId, changes, t) == ModifyScan(doc, elementId, changes, 1, t)

RECURSIVE EveryModify(_, _, _, _, _)
EveryModify(doc, elementIds, changes, k, t) ==
    IF k > Len(elementIds) THEN [doc |-> doc, res |-> Bool(TRUE)]
    ELSE LET r == modifyElement(doc, elementIds[k], changes, t)
         IN  IF r.res = Bool(TRUE) THEN EveryModify(r.doc, elementIds, changes, k + 1, t)
             ELSE r

executeModify(doc, operation, t, nid) ==
    LET r == CASE operation.type = "element" ->
                    modifyElement(doc, operation.target, operation.data, t)
               [] operation.type = "batch" ->
                    EveryModify(doc, operation.targets, operation.data, 1, t)
               [] OTHER -> [doc |-> doc, res |-> Bool(FALSE)]
    IN  Outcome(r.doc, r.res, nid)

-----------------------------------------------------------------------------
(* atomicEngine.ts: CREATE.  data.after is a number or the string 'end';   *)
(* the string is the key afterEnd here, the number the key after            *)

\* the loop of createSlide over data.elements, from entry k on
RECURSIVE InitialElements(_, _, _)
InitialElements(elementData, k, nid) ==
    IF k > Len(elementData) THEN [elements |-> <<>>, nid |-> nid]
    ELSE IF elementData[k].type \in FromDataTypes
         THEN LET rest == InitialElements(elementData, k + 1, nid + 1)
              IN  [elements |-> <<createElementFromData(elementData[k], nid)>>
                                    \o rest.elements,
                   nid |-> rest.nid]
         ELSE InitialElements(elementData, k + 1, nid)

\* createSlide with data.after as the insertion index: the slide goes in
\* before the one it was to follow
createSlideInsertsBefore(doc, data, t, nid) ==
    IF IsUndefined(data) THEN Outcome(doc, Throw("TypeError"), nid + 1)
    ELSE
    LET initial == IF HasKey(data, "elements")
                   THEN InitialElements(data.elements, 1, nid + 1)
                   ELSE [elements |-> <<>>, nid |-> nid + 1]
        slide == [id |-> nid,
                  elements |-> initial.elements,
                  layout |-> IF TruthyString(data, "layout") THEN data.layout ELSE "blank",
                  template |-> IF HasKey(data, "template") THEN data.template
                               ELSE "undefined",
                  createdAt |-> t,
                  updatedAt |-> t]
        insertIndex == IF HasKey(data, "afterEnd") THEN Len(doc.slides)
                       ELSE IF TruthyNumber(data, "after") THEN data.after ELSE 0
        start == SpliceStart(Len(doc.slides), insertIndex)
    IN  Outcome([doc EXCEPT !.slides = InsertAt(@, start + 1, slide)],
                Return("slide", slide.id), initial.nid)

createSlide(doc, data, t, nid) ==
    IF IsUndefined(data) THEN Outcome(doc, Throw("TypeError"), nid + 1)
    ELSE
    LET initial == IF HasKey(data, "elements")
                   THEN InitialElements(data.elements, 1, nid + 1)
                   ELSE [elements |-> <<>>, nid |-> nid + 1]
        slide == [id |-> nid,
                  elements |-> initial.elements,
                  layout |-> IF TruthyString(data, "layout") THEN data.layout ELSE "blank",
                  template |-> IF HasKey(data, "template") THEN data.template
                               ELSE "undefined",
                  createdAt |-> t,
                  updatedAt |-> t]
        insertIndex == IF HasKey(data, "afterEnd") THEN Len(doc.slides)
                       ELSE (IF TruthyNumber(data, "after") THEN data.after ELSE 0) + 1
        start == SpliceStart(Len(doc.slides), insertIndex)
    IN  Outcome([doc EXCEPT !.slides = InsertAt(@, start + 1, slide)],
                Return("slide", slide.id), initial.nid)

\* the loop of createMultipleSlides from iteration i on
RECURSIVE CreateLoop(_, _, _, _, _, _)
CreateLoop(doc, data, i, t, nid, first) ==
    IF ~HasKey(data, "count") \/ i >= data.count
    THEN Outcome(doc, Return("slides", first), nid)
    ELSE LET layout == IF HasKey(data, "layout") THEN data.layout ELSE "undefined"
             inner == IF HasKey(data, "afterEnd")
                      THEN [layout |-> layout, afterEnd |-> TRUE]
                      ELSE IF HasKey(data, "after")
                      THEN [layout |-> layout, after |-> data.after + i]
                      ELSE [layout |-> layout]
             r == createSlide(doc, inner, t, nid)
         IN  CreateLoop(r.doc, data, i + 1, t, r.nid, IF i = 0 THEN r.res.id ELSE first)

createMultipleSlides(doc, data, t, nid) ==
    IF IsUndefined(data) THEN Outcome(doc, Throw("TypeError"), nid)
    ELSE CreateLoop(doc, data, 0, t, nid, 0)

executeCreate(doc, operation, t, nid) ==
    CASE operation.type = "slide"  -> createSlide(doc, operation.data, t, nid)
      [] operation.type = "slides" -> createMultipleSlides(doc, operation.data, t, nid)
      [] OTHER -> Outcome(doc, Throw("Unsupported"), nid)

-----------------------------------------------------------------------------
(* atomicEngine.ts: DELETE *)

\* deleteSlide without the test for a negative index: splice counts a
\* negative start from the end of the array
deleteSlideNoLowerBound(doc, slideIndex) ==
    IF slideIndex < Len(doc.slides)
    THEN [doc |-> [doc EXCEPT !.slides =
                      RemoveAt(@, SpliceStart(Len(@), slideIndex) + 1)],
          res |-> Bool(TRUE)]
    ELSE [doc |-> doc, res |-> Bool(FALSE)]

deleteSlide(doc, slideIndex) ==
    IF slideIndex >= 0 /\ slideIndex < Len(doc.slides)
    THEN [doc |-> [doc EXCEPT !.slides = RemoveAt(@, slideIndex + 1)],
          res |-> Bool(TRUE)]
    ELSE [doc |-> doc, res |-> Bool(FALSE)]

\* [...slideIndices].sort((a, b) => b - a)
RECURSIVE SortDescending(_)
SortDescending(s) ==
    IF s = <<>> THEN <<>>
    ELSE LET m == CHOOSE i \in 1..Len(s) : \A j \in 1..Len(s) : s[j] <= s[i]
         IN  <<s[m]>> \o SortDescending(RemoveAt(s, m))

\* the loop of deleteMultipleSlides from entry k on
RECURSIVE DeleteLoop(_, _, _)
DeleteLoop(doc, sortedIndices, k) ==
    IF k > Len(sortedIndices) THEN [doc |-> doc, res |-> Bool(TRUE)]
    ELSE LET r == deleteSlide(doc, sortedIndices[k])
         IN  IF r.res = Bool(FALSE) THEN r
             ELSE DeleteLoop(r.doc, sortedIndices, k + 1)

deleteMultipleSlides(doc, slideIndices) ==
    DeleteLoop(doc, SortDescending(slideIndices), 1)

deleteSlideRange(doc, from, to) ==
    IF from > to \/ from < 0 \/ to >= Len(doc.slides)
    THEN [doc |-> doc, res |-> Bool(FALSE)]
    ELSE [doc |-> [doc EXCEPT !.slides =
                      SubSeq(@, 1, from) \o SubSeq(@, to + 2, Len(@))],
          res |-> Bool(TRUE)]

\* executeDelete that takes every unknown type for 'slide'
executeDeleteAnyType(doc, operation, t, nid) ==
    LET r == CASE operation.type = "slides" ->
                    deleteMultipleSlides(doc, operation.targets)
               [] operation.type = "slide-range" ->
                    IF IsUndefined(operation.data)
                    THEN [doc |-> doc, res |-> Throw("TypeError")]
                    ELSE deleteSlideRange(doc, operation.data.from, operation.data.to)
               [] OTHER -> deleteSlide(doc, operation.target)
    IN  Outcome(r.doc, r.res, nid)

executeDelete(doc, operation, t, nid) ==
    LET r == CASE operation.type = "slide" -> deleteSlide(doc, operation.target)
               [] operation.type = "slides" ->
                    deleteMultipleSlides(doc, operation.targets)
               [] operation.type = "slide-range" ->
                    IF IsUndefined(operation.data)
                    THEN [doc |-> doc, res |-> Throw("TypeError")]
                    ELSE deleteSlideRange(doc, operation.data.from, operation.data.to)
               [] OTHER -> [doc |-> doc, res |-> Bool(FALSE)]
    IN  Outcome(r.doc, r.res, nid)

-----------------------------------------------------------------------------
(* atomicEngine.ts: REORDER *)

\* a reorderSlides that moves slide i to position order[i] where the code
\* fetches the slide at index order[i] into position i
reorderSlidesScatters(doc, data) ==
    IF IsUndefined(data) THEN [doc |-> doc, res |-> Throw("TypeError")]
    ELSE IF HasKey(data, "order")
    THEN [doc |-> [doc EXCEPT !.slides =
                      [i \in 1..Len(data.order) |->
                          IF \E j \in 1..Len(data.order) : data.order[j] = i - 1
                          THEN SlideAt(doc.slides,
                                       (CHOOSE j \in 1..Len(data.order) :
                                            data.order[j] = i - 1) - 1)
                          ELSE UndefinedSlide]],
          res |-> Bool(TRUE)]
    ELSE [doc |-> doc, res |-> Bool(FALSE)]

\* stable insertion of slide x into a sequence sorted by createdAt
RECURSIVE InsertSorted(_, _, _)
InsertSorted(sorted, x, descending) ==
    IF sorted = <<>> THEN <<x>>
    ELSE IF (IF descending THEN Head(sorted).createdAt < x.createdAt
                           ELSE Head(sorted).createdAt > x.createdAt)
         THEN <<x>> \o sorted
         ELSE <<Head(sorted)>> \o InsertSorted(Tail(sorted), x, descending)

RECURSIVE SortByCreatedAt(_, _)
SortByCreatedAt(s, descending) ==
    IF s = <<>> THEN <<>>
    ELSE InsertSorted(SortByCreatedAt(SubSeq(s, 1, Len(s) - 1), descending),
                      s[Len(s)], descending)

\* Array.prototype.sort moves undefined entries to the end without calling
\* the comparator; the comparator reads createdAt of every other entry it
\* is handed, a TypeError for null.  A comparator that throws leaves the
\* array as it was (the engines sort a copy and write it back at the end).
reorderSlides(doc, data) ==
    IF IsUndefined(data) THEN [doc |-> doc, res |-> Throw("TypeError")]
    ELSE IF HasKey(data, "order")
    THEN [doc |-> [doc EXCEPT !.slides =
                      [i \in 1..Len(data.order) |-> SlideAt(doc.slides, data.order[i])]],
          res |-> Bool(TRUE)]
    ELSE IF TruthyString(data, "sortBy")
    THEN LET defined == SelectSeq(doc.slides, LAMBDA x : x # UndefinedSlide)
             holes == SelectSeq(doc.slides, LAMBDA x : x = UndefinedSlide)
             descending == HasKey(data, "direction") /\ data.direction = "descending"
         IN  IF Len(defined) >= 2 /\ \E i \in 1..Len(defined) : ~IsSlide(defined[i])
             THEN [doc |-> doc, res |-> Throw("TypeError")]
             ELSE [doc |-> [doc EXCEPT !.slides =
                               SortByCreatedAt(defined, descending) \o holes],
                   res |-> Bool(TRUE)]
    ELSE [doc |-> doc, res |-> Bool(FALSE)]

\* data.order.map(id => slide.elements.find(el => el.id === id)).filter(Boolean)
RECURSIVE PickElements(_, _, _)
PickElements(elements, order, k) ==
    IF k > Len(order) THEN <<>>
    ELSE LET index == FindIndex(elements, order[k])
         IN  (IF index # 0 THEN <<elements[index]>> ELSE <<>>)
                 \o PickElements(elements, order, k + 1)

\* reorderElements that puts the elements missing from the order at the end
reorderElementsKeepsMissing(doc, slideIndex, data, t) ==
    LET slide == SlideAt(doc.slides, slideIndex)
        picked == PickElements(slide.elements, data.order, 1)
        missing(el) == \A k \in 1..Len(data.order) : data.order[k] # el.id
    IN  IF ~IsSlide(slide) THEN [doc |-> doc, res |-> Bool(FALSE)]
        ELSE IF IsUndefined(data) \/ ~HasKey(data, "order")
             THEN [doc |-> doc, res |-> Throw("TypeError")]
        ELSE [doc |-> [doc EXCEPT
                         !.slides[slideIndex + 1].elements =
                             picked \o SelectSeq(slide.elements, missing),
                         !.slides[slideIndex + 1].updatedAt = t],
              res |-> Bool(TRUE)]

reorderElements(doc, slideIndex, data, t) ==
    LET slide == SlideAt(doc.slides, slideIndex)
    IN  IF ~IsSlide(slide) THEN [doc |-> doc, res |-> Bool(FALSE)]
        ELSE IF IsUndefined(data) \/ ~HasKey(data, "order")
             THEN [doc |-> doc, res |-> Throw("TypeError")]
        ELSE [doc |-> [doc EXCEPT
                         !.slides[slideIndex + 1].elements =
                             PickElements(slide.elements, data.order, 1),
                         !.slides[slideIndex + 1].updatedAt = t],
              res |-> Bool(TRUE)]

executeReorder(doc, operation, t, nid) ==
    LET r == CASE operation.type = "slides" -> reorderSlides(doc, operation.data)
               [] operation.type = "elements" ->
                    reorderElements(doc, operation.target, operation.data, t)
               [] OTHER -> [doc |-> doc, res |-> Bool(FALSE)]
    IN  Outcome(r.doc, r.res, nid)

-----------------------------------------------------------------------------
(* atomicEngine.ts: APPLY *)

applyTheme(doc, data) ==
    IF IsUndefined(data) THEN [doc |-> doc, res |-> Throw("TypeError")]
    ELSE [doc |-> [doc EXCEPT !.theme = ObjectAssign(@,
                      [name |-> IF HasKey(data, "name") THEN data.name ELSE "undefined",
                       colors |-> IF HasKey(data, "colorScheme") THEN data.colorScheme
                                  ELSE "undefined",
                       fonts |-> IF TruthyString(data, "fonts") THEN data.fonts
                                 ELSE IF HasKey(@, "fonts") THEN @.fonts
                                 ELSE "undefined"])],
          res |-> Bool(TRUE)]

\* the for-of loop of applyTransitions over the target slides, given as the
\* indices they were read from; an index without a slide yields a target
\* that is not an object, and assigning its animation is a TypeError
RECURSIVE TransitionLoop(_, _, _, _, _)
TransitionLoop(doc, indices, k, data, t) ==
    IF k > Len(indices) THEN [doc |-> doc, res |-> Bool(TRUE)]
    ELSE IF ~IsSlide(SlideAt(doc.slides, indices[k]))
         THEN [doc |-> doc, res |-> Throw("TypeError")]
    ELSE TransitionLoop(
            [doc EXCEPT !.slides[indices[k] + 1] = ObjectAssign(@,
                [animation |-> [type |-> data.slideTransition,
                                duration |-> data.duration],
                 updatedAt |-> t])],
            indices, k + 1, data, t)

applyTransitions(doc, data, t) ==
    IF IsUndefined(data) THEN [doc |-> doc, res |-> Throw("TypeError")]
    ELSE IF HasKey(data, "applyToAll")
    THEN TransitionLoop(doc, [i \in 1..Len(doc.slides) |-> i - 1], 1, data, t)
    ELSE IF ~HasKey(data, "applyTo")
    THEN [doc |-> doc, res |-> Throw("TypeError")]
    ELSE TransitionLoop(doc, data.applyTo, 1, data, t)

\* an applyLayout that lays the elements of every slide out at the origin
applyLayoutMovesElements(doc, data) ==
    [doc |-> [doc EXCEPT !.slides =
                [i \in 1..Len(@) |->
                    IF ~IsSlide(@[i]) THEN @[i]
                    ELSE [@[i] EXCEPT !.elements =
                            [k \in 1..Len(@) |-> ObjectAssign(@[k], [left |-> 0, top |-> 0])]]]],
     res |-> Bool(TRUE)]

applyLayout(doc, data) == [doc |-> doc, res |-> Bool(TRUE)]

\* the nested loops of applyAnimations from slide i on
RECURSIVE AnimationLoop(_, _, _)
AnimationLoop(doc, i, t) ==
    IF i > Len(doc.slides) THEN [doc |-> doc, res |-> Bool(TRUE)]
    ELSE IF ~IsSlide(doc.slides[i]) THEN [doc |-> doc, res |-> Throw("TypeError")]
    ELSE AnimationLoop(
            IF doc.slides[i].elements # <<>>
            THEN [doc EXCEPT !.slides[i].updatedAt = t] ELSE doc,
            i + 1, t)

applyAnimations(doc, data, t) == AnimationLoop(doc, 1, t)

applyBrand(doc, data) ==
    IF IsUndefined(data) THEN [doc |-> doc, res |-> Throw("TypeError")]
    ELSE [doc |-> IF TruthyString(data, "fonts")
                  THEN [doc EXCEPT !.theme = ObjectAssign(@, [fonts |-> data.fonts])]
                  ELSE doc,
          res |-> Bool(TRUE)]

executeApply(doc, operation, t, nid) ==
    LET r == CASE operation.type = "theme" -> applyTheme(doc, operation.data)
               [] operation.type = "transitions" ->
                    applyTransitions(doc, operation.data, t)
               [] operation.type = "layout" -> applyLayout(doc, operation.data)
               [] operation.type = "animations" ->
                    applyAnimations(doc, operation.data, t)
               [] operation.type = "brand" -> applyBrand(doc, operation.data)
               [] OTHER -> [doc |-> doc, res |-> Bool(FALSE)]
    IN  Outcome(r.doc, r.res, nid)

-----------------------------------------------------------------------------
(* atomicEngine.ts: execute(), up to its await: the switch over operation.op *)
(* runs the whole mutation before the caller gets the promise back          *)

Dispatch(doc, operation, t, nid) ==
    CASE operation.op = "ADD"     -> executeAdd(doc, operation, t, nid)
      [] operation.op = "REMOVE"  -> executeRemove(doc, operation, t, nid)
      [] operation.op = "MODIFY"  -> executeModify(doc, operation, t, nid)
      [] operation.op = "CREATE"  -> executeCreate(doc, operation, t, nid)
      [] operation.op = "DELETE"  -> executeDelete(doc, operation, t, nid)
      [] operation.op = "REORDER" -> executeReorder(doc, operation, t, nid)
      [] operation.op = "APPLY"   -> executeApply(doc, operation, t, nid)
      [] OTHER -> Outcome(doc, Throw("UnknownOp"), nid)

-----------------------------------------------------------------------------
(* presentation.ts: the documents the store starts from *)

\* createDefaultPresentation(): uuidv4() names the theme, the slide and the
\* presentation, in that order
createDefaultPresentation(t, nid) ==
    [id |-> nid + 2,
     slides |-> <<[id |-> nid + 1, elements |-> <<>>, layout |-> "blank",
                   createdAt |-> t, updatedAt |-> t]>>,
     theme |-> [id |-> nid, name |-> "Default", colors |-> "default",
                fonts |-> "Arial"],
     metadata |-> [updatedAt |-> t]]

\* a document handed to loadPresentation: two slides, three elements
LoadedElement(id, type, x) ==
    [id |-> id, type |-> type, left |-> x, top |-> 10,
     width |-> 100, height |-> 50, rotate |-> 0]

LoadedPresentation ==
    [id |-> 100,
     slides |-> <<[id |-> 101,
                   elements |-> <<LoadedElement(201, "text", 10),
                                  LoadedElement(202, "image", 20)>>,
                   layout |-> "title", createdAt |-> 0, updatedAt |-> 0],
                  [id |-> 102,
                   elements |-> <<LoadedElement(203, "shape", 30)>>,
                   layout |-> "blank", createdAt |-> 0, updatedAt |-> 0]>>,
     theme |-> [id |-> 103, name |-> "Loaded", colors |-> "default",
                fonts |-> "Arial"],
     metadata |-> [updatedAt |-> 0]]

\* a document of three slides, one element each
ThreeSlidePresentation ==
    [LoadedPresentation EXCEPT
        !.slides = <<[id |-> 101, elements |-> <<LoadedElement(201, "text", 10)>>,
                      layout |-> "title", createdAt |-> 0, updatedAt |-> 0],
                     [id |-> 102, elements |-> <<LoadedElement(202, "image", 20)>>,
                      layout |-> "blank", createdAt |-> 0, updatedAt |-> 0],
                     [id |-> 103, elements |-> <<LoadedElement(203, "shape", 30)>>,
                      layout |-> "blank", createdAt |-> 0, updatedAt |-> 0]>>]

\* the same document with timestamps that differ, as the editor saved it
SavedPresentation ==
    [LoadedPresentation EXCEPT !.slides[1].createdAt = 2, !.slides[1].updatedAt = 2,
                               !.slides[2].createdAt = 1, !.slides[2].updatedAt = 1,
                               !.metadata.updatedAt = 2]

-----------------------------------------------------------------------------
(* presentation.ts: history *)

EmptyHistory == [past |-> <<>>, future |-> <<>>]

canUndo == Len(history.past) > 0

canRedo == Len(history.future) > 0

\* saveToHistory with pop() where the code has shift(): the newest is dropped
saveToHistoryDropsNewest(h, doc) ==
    LET pushed == Append(h.past, JsonClone(doc))
    IN  [past |-> IF Len(pushed) > HistoryLimit
                  THEN SubSeq(pushed, 1, Len(pushed) - 1) ELSE pushed,
         future |-> <<>>]

saveToHistory(h, doc) ==
    LET pushed == Append(h.past, JsonClone(doc))
    IN  [past |-> IF Len(pushed) > HistoryLimit THEN Tail(pushed) ELSE pushed,
         future |-> <<>>]

-----------------------------------------------------------------------------
(* Object identity.  The engine mutates the live document in place, and    *)
(* history.past and history.future hold objects: refs names, by a number,  *)
(* the object that is the live document and the object at each position of *)
(* the two stacks.  A write to an object is seen wherever that object is.  *)

Range(s) == {s[i] : i \in 1..Len(s)}

\* the objects reachable from the store
InUse(r) == {r.live} \cup Range(r.past) \cup Range(r.future)

\* the object a new allocation yields: one that is not in use
NewObject(r) == CHOOSE a \in 1..(Cardinality(InUse(r)) + 1) : a \notin InUse(r)

\* a JSON round trip that hands back the object it was given
JsonCloneRefShared(r) == r.live

\* JSON.parse(JSON.stringify(presentation.value)): the object it returns
JsonCloneRef(r) == NewObject(r)

\* saveToHistory() on the objects
saveToHistoryRefs(r) ==
    LET pushed == Append(r.past, JsonCloneRef(r))
    IN  [r EXCEPT !.past = IF Len(pushed) > HistoryLimit THEN Tail(pushed) ELSE pushed,
                  !.future = <<>>]

\* the history after a write of doc to the live object
WriteThrough(h, r, doc) ==
    [past |-> [i \in 1..Len(h.past) |->
                  IF r.past[i] = r.live THEN doc ELSE h.past[i]],
     future |-> [i \in 1..Len(h.future) |->
                  IF r.future[i] = r.live THEN doc ELSE h.future[i]]]

-----------------------------------------------------------------------------
(* What is known of the last store call, for the statements below *)

NoOperation == [op |-> "NONE", type |-> "none"]

\* the engine's log, the history and the telemetry calls as a call found them
Before(log, h, sent) == [operationHistory |-> log, history |-> h, emitted |-> sent]

\* the store as a call of undo() or redo() found it; kind "none" is no call
Mark(kind, doc, h) == [kind |-> kind, presentation |-> doc, history |-> h]

Last(step, seq, operation, res, pre, post, before) ==
    [step |-> step, seq |-> seq, op |-> operation, res |-> res,
     pre |-> pre, post |-> post, before |-> before,
     mark |-> Mark("none", pre, EmptyHistory),
     prior |-> Mark("none", pre, EmptyHistory)]

\* the steps after which the latest store call was undo() or redo()
UndoRedoSteps == {"undo", "undo1", "redo", "redo1"}

\* last, once undo() or redo() has been called: mark is the store that
\* call found, prior the one the call before it found if that was undo() or
\* redo() too
Marked(step, kind) ==
    [last EXCEPT !.step = step,
                 !.mark = Mark(kind, presentation, history),
                 !.prior = IF last.step \in UndoRedoSteps THEN last.mark
                           ELSE Mark("none", last.pre, EmptyHistory)]

\* what a claim calls the document: everything but the updatedAt stamps
Content(doc) ==
    [slides |-> [i \in 1..Len(doc.slides) |->
                    IF IsSlide(doc.slides[i])
                    THEN DropKey(doc.slides[i], "updatedAt") ELSE doc.slides[i]],
     theme |-> doc.theme]

\* deep equality of two documents as JSON
DeepEqual(a, b) == JsonClone(a) = JsonClone(b)

-----------------------------------------------------------------------------
(* utils/AtomicOperations and ComponentUtils: the component operations, the *)
(* validator and the processor that keeps the components of every slide     *)

\* the slides an operation's context can name
SlideIds == {"slide-1", "slide-2"}

\* createOperationContext(slideId, ...); an operation can also lack its context
createOperationContext(slideId) == [present |-> TRUE, slideId |-> slideId]

NoContext == [present |-> FALSE, slideId |-> "slide-1"]

\* position: { x, y }; numeric is whether typeof x and typeof y are 'number',
\* x and y are the numbers that a comparison converts them to
Position(x, y) == [present |-> TRUE, numeric |-> TRUE, x |-> x, y |-> y]

NoPosition == [present |-> FALSE, numeric |-> FALSE, x |-> 0, y |-> 0]

TextualPosition == [present |-> TRUE, numeric |-> FALSE, x |-> 0, y |-> 0]

NegativeTextualPosition ==
    [present |-> TRUE, numeric |-> FALSE, x |-> -1, y |-> 0]

\* newOrder of a REORDER's data: absent, or a list of component ids
NoOrder == [present |-> FALSE, ids |-> <<>>]

NewOrder(ids) == [present |-> TRUE, ids |-> ids]

\* the data of an operation: width 0 and src "" stand for a property that is
\* absent (or falsy), zIndexChanges maps component ids to layers
NoComponentData ==
    [present |-> FALSE, width |-> 0, src |-> "", newOrder |-> NoOrder,
     zIndexChanges |-> <<>>, animation |-> 0]

EmptyData == [NoComponentData EXCEPT !.present = TRUE]

\* targets of an APPLY: absent, or a list that may hold 'all'
NoTargets == [present |-> FALSE, all |-> FALSE, ids |-> {}]

Targets(ids) == [present |-> TRUE, all |-> FALSE, ids |-> ids]

AllTargets == [present |-> TRUE, all |-> TRUE, ids |-> {}]

\* an object with none of the properties of an operation: "" , 0 and <<>>
\* stand for a property that is absent (or falsy)
BlankOperation ==
    [operation |-> "", context |-> NoContext, componentType |-> "",
     data |-> NoComponentData, position |-> NoPosition, componentIds |-> <<>>,
     componentId |-> 0, changes |-> <<>>, createType |-> "",
     deleteType |-> "", targetIds |-> <<>>, reorderType |-> "",
     applyType |-> "", targets |-> NoTargets]

createAddOperation(componentType, data, position, context) ==
    [BlankOperation EXCEPT !.operation = "ADD", !.componentType = componentType,
                           !.data = data, !.position = position,
                           !.context = context]

createRemoveOperation(componentIds, context) ==
    [BlankOperation EXCEPT !.operation = "REMOVE",
                           !.componentIds = componentIds, !.context = context]

createModifyOperation(componentId, changes, context) ==
    [BlankOperation EXCEPT !.operation = "MODIFY", !.componentId = componentId,
                           !.changes = changes, !.context = context]

createCreateOperation(createType, data, context) ==
    [BlankOperation EXCEPT !.operation = "CREATE", !.createType = createType,
                           !.data = data, !.context = context]

createDeleteOperation(deleteType, targetIds, context) ==
    [BlankOperation EXCEPT !.operation = "DELETE", !.deleteType = deleteType,
                           !.targetIds = targetIds, !.context = context]

createReorderOperation(reorderType, data, context) ==
    [BlankOperation EXCEPT !.operation = "REORDER", !.reorderType = reorderType,
                           !.data = data, !.context = context]

createApplyOperation(applyType, data, targets, context) ==
    [BlankOperation EXCEPT !.operation = "APPLY", !.applyType = applyType,
                           !.data = data, !.targets = targets,
                           !.context = context]

\* errors.push / warnings.push when a condition holds
Finding(condition, code) == IF condition THEN <<code>> ELSE <<>>

Findings(errors, warned) == [errors |-> errors, warnings |-> warned]

validateAddOperationRefusesNegative(operation) ==
    Findings(Finding(operation.componentType = "", "MISSING_COMPONENT_TYPE")
                \o Finding(~operation.data.present, "MISSING_DATA")
                \o Finding(~operation.position.present, "MISSING_POSITION")
                \o Finding(operation.position.present
                              /\ ~operation.position.numeric, "INVALID_POSITION")
                \o Finding(/\ operation.context.present
                           /\ operation.position.present
                           /\ (operation.position.x < 0
                                  \/ operation.position.y < 0),
                           "POSITION_OUT_OF_BOUNDS"),
             <<>>)

validateAddOperation(operation) ==
    Findings(Finding(operation.componentType = "", "MISSING_COMPONENT_TYPE")
                \o Finding(~operation.data.present, "MISSING_DATA")
                \o Finding(~operation.position.present, "MISSING_POSITION")
                \o Finding(operation.position.present
                              /\ ~operation.position.numeric, "INVALID_POSITION"),
             Finding(/\ operation.context.present
                     /\ operation.position.present
                     /\ (operation.position.x < 0 \/ operation.position.y < 0),
                     "POSITION_OUT_OF_BOUNDS"))

validateRemoveOperation(operation) ==
    Findings(Finding(operation.componentIds = <<>>, "MISSING_COMPONENT_IDS"),
             <<>>)

validateModifyOperation(operation) ==
    Findings(Finding(operation.componentId = 0, "MISSING_COMPONENT_ID"),
             Finding(DOMAIN operation.changes = {}, "NO_CHANGES"))

validateCreateOperation(operation) ==
    Findings(Finding(operation.createType = "", "MISSING_CREATE_TYPE")
                \o Finding(~operation.data.present, "MISSING_DATA"),
             <<>>)

validateDeleteOperation(operation) ==
    Findings(Finding(operation.deleteType = "", "MISSING_DELETE_TYPE")
                \o Finding(operation.targetIds = <<>>, "MISSING_TARGET_IDS"),
             <<>>)

validateReorderOperation(operation) ==
    Findings(Finding(operation.reorderType = "", "MISSING_REORDER_TYPE")
                \o Finding(~operation.data.present, "MISSING_DATA"),
             <<>>)

validateApplyOperation(operation) ==
    Findings(Finding(operation.applyType = "", "MISSING_APPLY_TYPE")
                \o Finding(~operation.data.present, "MISSING_DATA"),
             Finding(~operation.targets.present
                        \/ (~operation.targets.all /\ operation.targets.ids = {}),
                     "NO_TARGETS"))

\* AtomicOperationValidator.validate(operation)
validate(operation) ==
    LET basic == Finding(operation.operation = "", "MISSING_OPERATION")
                    \o Finding(~operation.context.present, "MISSING_CONTEXT")
        specific ==
            CASE operation.operation = "ADD" -> validateAddOperation(operation)
              [] operation.operation = "REMOVE" -> validateRemoveOperation(operation)
              [] operation.operation = "MODIFY" -> validateModifyOperation(operation)
              [] operation.operation = "CREATE" -> validateCreateOperation(operation)
              [] operation.operation = "DELETE" -> validateDeleteOperation(operation)
              [] operation.operation = "REORDER" -> validateReorderOperation(operation)
              [] operation.operation = "APPLY" -> validateApplyOperation(operation)
              [] OTHER -> Findings(<<>>, <<>>)
    IN  [valid |-> Len(basic \o specific.errors) = 0,
         errors |-> basic \o specific.errors,
         warnings |-> specific.warnings]

\* createComponentFromData(type, data, position), with the id that
\* createComponentId() returns and the time that Date.now() returns
createComponentFromData(type, data, position, id, t) ==
    [id |-> id, type |-> type, x |-> position.x, y |-> position.y,
     width |-> IF data.width # 0 THEN data.width ELSE 100, height |-> 100,
     zIndex |-> 1, src |-> IF type = "image" THEN data.src ELSE "",
     animation |-> 0, updatedAt |-> t]

\* validateComponent(component).valid
validateComponent(component) ==
    /\ component.id # 0
    /\ component.type # ""
    /\ component.width > 0
    /\ component.height > 0
    /\ component.type = "image" => component.src # ""

\* what a process...Operation leaves: the components of every slide, the
\* next component id, and either a result or the error thrown
Processed(components, nid, componentIds, changes) ==
    [components |-> components, nid |-> nid, threw |-> FALSE, error |-> "",
     componentIds |-> componentIds, changes |-> changes]

ProcessThrew(components, nid, error) ==
    [components |-> components, nid |-> nid, threw |-> TRUE, error |-> error,
     componentIds |-> <<>>, changes |-> <<>>]

processAddOperation(components, operation, nid, t) ==
    LET component == createComponentFromData(operation.componentType,
                         operation.data, operation.position, nid, t)
        slideId == operation.context.slideId
    IN  IF ~validateComponent(component)
        THEN ProcessThrew(components, nid + 1, "Invalid component")
        ELSE Processed([components EXCEPT ![slideId] = Append(@, component)],
                       nid + 1, <<component.id>>, <<component>>)

processRemoveOperation(components, componentIds, context, nid) ==
    LET slideComponents == components[context.slideId]
        removed(comp) == comp.id \in Range(componentIds)
        remains(comp) == ~removed(comp)
    IN  Processed([components EXCEPT ![context.slideId] =
                      SelectSeq(slideComponents, remains)],
                  nid, componentIds, SelectSeq(slideComponents, removed))

\* slideComponents.findIndex(comp => comp.id === id), from 1; 0 when absent
findIndex(slideComponents, id) ==
    IF \E i \in 1..Len(slideComponents) : slideComponents[i].id = id
    THEN CHOOSE i \in 1..Len(slideComponents) :
            /\ slideComponents[i].id = id
            /\ \A j \in 1..(i - 1) : slideComponents[j].id # id
    ELSE 0

\* { ...component, ...changes }
Spread(component, changes) ==
    [f \in DOMAIN component |->
        IF f \in DOMAIN changes THEN changes[f] ELSE component[f]]

processModifyOperation(components, operation, nid, t) ==
    LET slideId == operation.context.slideId
        slideComponents == components[slideId]
        componentIndex == findIndex(slideComponents, operation.componentId)
        modifiedComponent ==
            [Spread(slideComponents[componentIndex], operation.changes)
                EXCEPT !.updatedAt = t]
    IN  IF componentIndex = 0
        THEN ProcessThrew(components, nid, "Component not found")
        ELSE IF ~validateComponent(modifiedComponent)
        THEN ProcessThrew(components, nid, "Invalid modified component")
        ELSE Processed([components EXCEPT ![slideId][componentIndex] =
                           modifiedComponent],
                       nid, <<operation.componentId>>, <<modifiedComponent>>)

processCreateOperation(components, operation, nid) ==
    Processed(components, nid, <<>>, <<>>)

processDeleteOperation(components, operation, nid) ==
    processRemoveOperation(components, operation.targetIds, operation.context,
                           nid)

\* newOrder.map(id => slideComponents.find(...)).filter(Boolean)
Reordered(slideComponents, newOrder) ==
    LET found == SelectSeq(newOrder,
                           LAMBDA id : findIndex(slideComponents, id) # 0)
    IN  [i \in 1..Len(found) |->
            slideComponents[findIndex(slideComponents, found[i])]]

processReorderOperation(components, operation, nid) ==
    LET slideId == operation.context.slideId
        slideComponents == components[slideId]
        layered == [i \in 1..Len(slideComponents) |->
                      IF slideComponents[i].id
                            \in DOMAIN operation.data.zIndexChanges
                      THEN [slideComponents[i] EXCEPT !.zIndex =
                              operation.data.zIndexChanges[slideComponents[i].id]]
                      ELSE slideComponents[i]]
    IN  CASE operation.reorderType = "components"
                /\ operation.data.newOrder.present ->
               Processed([components EXCEPT ![slideId] =
                            Reordered(slideComponents,
                                      operation.data.newOrder.ids)],
                         nid, <<>>, slideComponents)
          [] operation.reorderType = "layers" ->
               Processed([components EXCEPT ![slideId] = layered],
                         nid, <<>>, layered)
          [] OTHER -> Processed(components, nid, <<>>, slideComponents)

\* applyThemeToComponent, applyStyleToComponent, applyAnimationToComponent
applyToComponent(comp, applyType, data, t) ==
    CASE applyType \in {"theme", "style"} -> [comp EXCEPT !.updatedAt = t]
      [] applyType = "animation" ->
           [comp EXCEPT !.animation = data.animation, !.updatedAt = t]
      [] OTHER -> comp

processApplyOperation(components, operation, nid, t) ==
    LET slideId == operation.context.slideId
        slideComponents == components[slideId]
        targeted(comp) == operation.targets.all
                             \/ comp.id \in operation.targets.ids
        applied == [i \in 1..Len(slideComponents) |->
                      IF targeted(slideComponents[i])
                      THEN applyToComponent(slideComponents[i],
                               operation.applyType, operation.data, t)
                      ELSE slideComponents[i]]
        modifiedComponents == SelectSeq(applied, targeted)
    IN  IF ~operation.targets.present
        THEN ProcessThrew(components, nid, "TypeError")
        ELSE Processed([components EXCEPT ![slideId] = applied], nid,
                       [i \in 1..Len(modifiedComponents) |->
                           modifiedComponents[i].id],
                       modifiedComponents)

\* the body of processOperation's try block up to recordInHistory
process(components, operation, nid, t) ==
    IF ~validate(operation).valid
    THEN ProcessThrew(components, nid, "Operation validation failed")
    ELSE CASE operation.operation = "ADD" ->
                processAddOperation(components, operation, nid, t)
           [] operation.operation = "REMOVE" ->
                processRemoveOperation(components, operation.componentIds,
                                       operation.context, nid)
           [] operation.operation = "MODIFY" ->
                processModifyOperation(components, operation, nid, t)
           [] operation.operation = "CREATE" ->
                processCreateOperation(components, operation, nid)
           [] operation.operation = "DELETE" ->
                processDeleteOperation(components, operation, nid)
           [] operation.operation = "REORDER" ->
                processReorderOperation(components, operation, nid)
           [] operation.operation = "APPLY" ->
                processApplyOperation(components, operation, nid, t)
           [] OTHER -> ProcessThrew(components, nid, "Unsupported operation")

\* recordInHistory(operation, result)
recordInHistory(processorHistory, operation, operationId, r, t) ==
    [processorHistory EXCEPT ![operation.context.slideId] =
        Append(@, [id |-> operationId,
                   operation |-> operation.operation,
                   componentType |-> IF operation.componentType # ""
                                     THEN operation.componentType
                                     ELSE "unknown",
                   componentId |-> IF r.componentIds # <<>>
                                   THEN r.componentIds[1] ELSE 0,
                   timestamp |-> t])]

\* how a call of processOperation settles
NotCalled == [settled |-> "none", success |-> FALSE, error |-> ""]

Resolved(success, error) ==
    [settled |-> "resolved", success |-> success, error |-> error]

Rejected == [settled |-> "rejected", success |-> FALSE, error |-> "TypeError"]

\* the processor and its last call: the operation, what the validator said
\* of it, the components and the history before it, how it settled
Processor(components, processorHistory, nid, calls, operation, before, outcome) ==
    [components |-> components, history |-> processorHistory, nextId |-> nid,
     calls |-> calls, operation |-> operation,
     validation |-> validate(operation), before |-> before,
     outcome |-> outcome]

\* a call of validate: whether there was one, its operation, what it returned
Validated(called, operation) ==
    [called |-> called, operation |-> operation,
     validation |-> validate(operation)]

\* new AtomicOperationProcessor()
NewProcessor ==
    Processor([s \in SlideIds |-> <<>>], [s \in SlideIds |-> <<>>], 1, 0,
              BlankOperation,
              [components |-> [s \in SlideIds |-> <<>>],
               history |-> [s \in SlideIds |-> <<>>]],
              NotCalled)

-----------------------------------------------------------------------------
(* presentation.ts: the canvas; part_014 (the aiStore): operation sequences *)

createDefaultCanvasState == [activeSlide |-> 0]

\* the store functions that await executeAtomicOperation and go on after it
Callers ==
    {"executeAtomicOperation", "createSlide", "deleteSlide",
     "executeOperationSequence"}

\* what the calling store function does to the canvas once
\* executeAtomicOperation has returned
afterExecute(caller, cv, doc) ==
    CASE caller = "createSlide" ->
           [cv EXCEPT !.activeSlide = Min(@ + 1, Len(doc.slides) - 1)]
      [] caller = "deleteSlide" ->
           IF cv.activeSlide >= Len(doc.slides)
           THEN [cv EXCEPT !.activeSlide = Max(0, Len(doc.slides) - 1)]
           ELSE cv
      [] OTHER -> cv

\* a call of executeOperationSequence: the atoms, the index i of the atom
\* reached (from 1), and where the call is: "idle" before it, "awaiting"
\* the atom's execution, in the "delay" after it, "returned"; broke is
\* whether the loop was left by the catch block
Sequence(atoms, i, status, broke) ==
    [atoms |-> atoms, i |-> i, status |-> status, broke |-> broke]

NoSequence == Sequence(<<>>, 0, "idle", FALSE)

\* the body of the loop of executeOperationSequence after the await, for
\* the call resumed
afterAtom(caller, seq, threw) ==
    IF caller # "executeOperationSequence" THEN seq
    ELSE IF threw THEN [seq EXCEPT !.status = "returned", !.broke = TRUE]
    ELSE [seq EXCEPT !.status = "delay"]

-----------------------------------------------------------------------------
(* presentation.ts and atomicEngine.ts: the store's actions *)

Init ==
    /\ presentation = createDefaultPresentation(0, 1)
    /\ history = EmptyHistory
    /\ operationHistory = <<>>
    /\ pending = <<>>
    /\ emitted = <<>>
    /\ snapLog = <<>>
    /\ now = 0
    /\ nextId = 4
    /\ opCount = 0
    /\ docCount = 0
    /\ extraCalls = 0
    /\ last = Last("init", 0, NoOperation, Bool(TRUE), presentation, presentation,
                   Before(<<>>, EmptyHistory, <<>>))
    /\ inflight = {}
    /\ warnings = <<>>
    /\ refs = [live |-> 1, past |-> <<>>, future |-> <<>>]
    /\ processor = NewProcessor
    /\ validated = Validated(FALSE, BlankOperation)
    /\ canvas = createDefaultCanvasState
    /\ sequence = NoSequence

\* executeAtomicOperation(operation) up to the await inside execute(): the
\* engine has run the mutation, or has thrown, and the call is suspended
ExecuteAtomicOperation(caller, operation, limit, maxPending) ==
    /\ opCount < limit
    /\ Len(pending) < maxPending
    /\ LET r == Dispatch(presentation, operation, now, nextId)
       IN  /\ presentation' = r.doc
           /\ nextId' = r.nid
           /\ pending' = Append(pending, [seq |-> opCount + 1,
                                          operation |-> operation,
                                          result |-> r.res,
                                          alone |-> pending = <<>>,
                                          caller |-> caller])
           /\ last' = Last("submit", opCount + 1, operation, r.res,
                           presentation, r.doc,
                           Before(operationHistory, history, emitted))
           /\ history' = WriteThrough(history, refs, r.doc)
    /\ opCount' = opCount + 1
    /\ UNCHANGED <<operationHistory, emitted, snapLog, now, docCount,
                   extraCalls, inflight, warnings, refs, componentVars, canvas>>

\* executeAtomicOperation(operation), called from a component
Submit(operation, limit, maxPending) ==
    /\ ExecuteAtomicOperation("executeAtomicOperation", operation, limit,
                              maxPending)
    /\ UNCHANGED sequence

\* a queue that resumes the call suspended last
NextToResumeNewest == Len(pending)

\* which suspended call the microtask queue resumes
NextToResume == 1

\* the rest of execute() for the call resumed: a rejection is rethrown; a
\* result is logged, stamped and handed to the store's listener, which
\* calls saveToHistory() and emitOperationToBackend()
Resume ==
    /\ pending # <<>>
    /\ LET p == pending[NextToResume]
           stamped == [presentation EXCEPT !.metadata.updatedAt = now]
       IN  /\ pending' = RemoveAt(pending, NextToResume)
           /\ IF Threw(p.result)
              THEN /\ UNCHANGED <<presentation, history, operationHistory,
                                  emitted, snapLog, inflight, refs, canvas>>
                   /\ last' = IF p.seq = last.seq
                              THEN [last EXCEPT !.step = "failed"] ELSE last
              ELSE /\ operationHistory' = Append(operationHistory,
                                              [seq |-> p.seq, operation |-> p.operation])
                   /\ presentation' = stamped
                   /\ history' = saveToHistory(WriteThrough(history, refs, stamped),
                                               stamped)
                   /\ refs' = saveToHistoryRefs(refs)
                   /\ snapLog' = Append(snapLog, p.seq)
                   /\ emitted' = Append(emitted, p.seq)
                   /\ inflight' = inflight \cup {p.seq}
                   /\ canvas' = afterExecute(p.caller, canvas, stamped)
                   /\ last' = IF p.seq = last.seq
                              THEN [last EXCEPT
                                      !.step = IF p.alone /\ Len(pending) = 1
                                               THEN "done" ELSE "doneBatch",
                                      !.post = stamped]
                              ELSE last
           /\ sequence' = afterAtom(p.caller, sequence, Threw(p.result))
    /\ UNCHANGED <<now, nextId, opCount, docCount, extraCalls, warnings,
                   componentVars>>

\* saveToHistory(), called through the store's public surface
SaveToHistory(limit) ==
    /\ pending = <<>>
    /\ extraCalls < limit
    /\ history' = saveToHistory(history, presentation)
    /\ refs' = saveToHistoryRefs(refs)
    /\ extraCalls' = extraCalls + 1
    /\ last' = [last EXCEPT !.step = "save"]
    /\ UNCHANGED <<presentation, operationHistory, pending, emitted, snapLog,
                   now, nextId, opCount, docCount, inflight, warnings,
                   componentVars, canvas, sequence>>

\* undo() without the pop(): the snapshot restored stays on past
UndoKeepsPast(limit) ==
    /\ pending = <<>>
    /\ extraCalls < limit
    /\ canUndo
    /\ history' = [past |-> history.past,
                   future |-> <<JsonClone(presentation)>> \o history.future]
    /\ presentation' = history.past[Len(history.past)]
    /\ refs' = [live |-> refs.past[Len(refs.past)],
                past |-> refs.past,
                future |-> <<JsonCloneRef(refs)>> \o refs.future]
    /\ operationHistory' = <<>>
    /\ extraCalls' = extraCalls + 1
    /\ last' = Marked(IF last.step = "done" THEN "undo1" ELSE "undo", "undo")
    /\ UNCHANGED <<pending, emitted, snapLog, now, nextId, opCount, docCount,
                   inflight, warnings, componentVars, canvas, sequence>>

Undo(limit) ==
    /\ pending = <<>>
    /\ extraCalls < limit
    /\ canUndo
    /\ history' = [past |-> SubSeq(history.past, 1, Len(history.past) - 1),
                   future |-> <<JsonClone(presentation)>> \o history.future]
    /\ presentation' = history.past[Len(history.past)]
    /\ refs' = [live |-> refs.past[Len(refs.past)],
                past |-> SubSeq(refs.past, 1, Len(refs.past) - 1),
                future |-> <<JsonCloneRef(refs)>> \o refs.future]
    /\ operationHistory' = <<>>
    /\ extraCalls' = extraCalls + 1
    /\ last' = Marked(IF last.step = "done" THEN "undo1" ELSE "undo", "undo")
    /\ UNCHANGED <<pending, emitted, snapLog, now, nextId, opCount, docCount,
                   inflight, warnings, componentVars, canvas, sequence>>

\* redo() with unshift() where the code has push()
RedoUnshifts ==
    /\ pending = <<>>
    /\ canRedo
    /\ history' = [past |-> <<JsonClone(presentation)>> \o history.past,
                   future |-> Tail(history.future)]
    /\ presentation' = Head(history.future)
    /\ refs' = [live |-> Head(refs.future),
                past |-> <<JsonCloneRef(refs)>> \o refs.past,
                future |-> Tail(refs.future)]
    /\ operationHistory' = <<>>
    /\ last' = Marked(IF last.step = "undo1" THEN "redo1" ELSE "redo", "redo")
    /\ UNCHANGED <<pending, emitted, snapLog, now, nextId, opCount, docCount,
                   extraCalls, inflight, warnings,
                   componentVars, canvas, sequence>>

Redo ==
    /\ pending = <<>>
    /\ canRedo
    /\ history' = [past |-> Append(history.past, JsonClone(presentation)),
                   future |-> Tail(history.future)]
    /\ presentation' = Head(history.future)
    /\ refs' = [live |-> Head(refs.future),
                past |-> Append(refs.past, JsonCloneRef(refs)),
                future |-> Tail(refs.future)]
    /\ operationHistory' = <<>>
    /\ last' = Marked(IF last.step = "undo1" THEN "redo1" ELSE "redo", "redo")
    /\ UNCHANGED <<pending, emitted, snapLog, now, nextId, opCount, docCount,
                   extraCalls, inflight, warnings,
                   componentVars, canvas, sequence>>

NewPresentation(limit) ==
    /\ pending = <<>>
    /\ docCount < limit
    /\ docCount' = docCount + 1
    /\ presentation' = createDefaultPresentation(now, nextId)
    /\ refs' = [live |-> NewObject(refs), past |-> <<>>, future |-> <<>>]
    /\ nextId' = nextId + 3
    /\ history' = EmptyHistory
    /\ operationHistory' = <<>>
    /\ last' = [last EXCEPT !.step = "new"]
    /\ canvas' = createDefaultCanvasState
    /\ UNCHANGED <<pending, emitted, snapLog, now, opCount, extraCalls,
                   inflight, warnings, componentVars, sequence>>

LoadPresentation(data, limit) ==
    /\ pending = <<>>
    /\ docCount < limit
    /\ docCount' = docCount + 1
    /\ presentation' = data
    /\ refs' = [live |-> NewObject(refs), past |-> <<>>, future |-> <<>>]
    /\ history' = EmptyHistory
    /\ operationHistory' = <<>>
    /\ last' = [last EXCEPT !.step = "load"]
    /\ canvas' = createDefaultCanvasState
    /\ UNCHANGED <<pending, emitted, snapLog, now, nextId, opCount, extraCalls,
                   inflight, warnings, componentVars, sequence>>

\* time passes
Tick(limit) ==
    /\ now < limit
    /\ now' = now + 1
    /\ UNCHANGED <<presentation, history, operationHistory, pending, emitted,
                   snapLog, nextId, opCount, docCount, extraCalls, last,
                   inflight, warnings, refs, componentVars, canvas, sequence>>

\* how fetch('/api/operations') can settle: a response that is ok, a
\* response that is not, a rejection (network error)
FetchOutcomes == {"ok", "notOk", "networkError"}

\* the store as emitOperationToBackend can reach it
Store(doc, h, warned) == [presentation |-> doc, history |-> h, warnings |-> warned]

\* an emitOperationToBackend that undoes the operation when its call fails
emitOperationToBackendRollsBack(store, seq, outcome) ==
    IF outcome = "ok" \/ store.history.past = <<>> THEN store
    ELSE [presentation |-> store.history.past[Len(store.history.past)],
          history |-> [store.history EXCEPT
                          !.past = SubSeq(@, 1, Len(@) - 1)],
          warnings |-> Append(store.warnings, [seq |-> seq, outcome |-> outcome])]

\* emitOperationToBackend(operation, result) from the point where its fetch
\* settles: a response that is not ok and a rejection are each answered
\* with one console.warn, and nothing else
emitOperationToBackend(store, seq, outcome) ==
    IF outcome = "ok" THEN store
    ELSE [store EXCEPT !.warnings = Append(@, [seq |-> seq, outcome |-> outcome])]

\* the fetch of one telemetry call settles
Settle(outcome) ==
    /\ pending = <<>>
    /\ \E seq \in inflight :
          LET store == emitOperationToBackend(
                          Store(presentation, history, warnings), seq, outcome)
          IN  /\ presentation' = store.presentation
              /\ history' = store.history
              /\ warnings' = store.warnings
              /\ inflight' = inflight \ {seq}
    /\ UNCHANGED <<operationHistory, pending, emitted, snapLog, now, nextId,
                   opCount, docCount, extraCalls, last, refs,
                   componentVars, canvas, sequence>>

-----------------------------------------------------------------------------
(* The operations the store is driven with *)

Op(op, type, target, data) == [op |-> op, type |-> type, target |-> target, data |-> data]

OpMany(op, type, targets, data) ==
    [op |-> op, type |-> type, targets |-> targets, data |-> data]

AddData == [x |-> 100, y |-> 100, width |-> 0, height |-> 0]

\* an element id no document holds
GhostId == 900 + 99

StoreOps ==
    { Op("ADD", "text", 0, AddData),
      Op("REMOVE", "element", GhostId, NoData),
      Op("MODIFY", "element", 201, [left |-> 50]),
      Op("CREATE", "slide", 0, [after |-> 0]),
      Op("DELETE", "slide", 0, NoData),
      OpMany("REORDER", "slides", <<1, 0>>, [order |-> <<1, 0>>]) }

Next ==
    \/ \E operation \in StoreOps : Submit(operation, MaxOps, MaxPending)
    \/ Resume
    \/ SaveToHistory(MaxExtra)
    \/ Undo(MaxExtra)
    \/ Redo
    \/ NewPresentation(MaxDocs)
    \/ LoadPresentation(LoadedPresentation, MaxDocs)

Spec == Init /\ [][Next]_vars

-----------------------------------------------------------------------------
(* The engine alone: every operation kind, with payloads that succeed,     *)
(* miss their target, name no known type or are missing, each call awaited *)

EngineOps ==
    { Op("ADD", type, 0, AddData) : type \in AddTypes }
    \cup
    { Op("ADD", "text", 1, [x |-> 5, y |-> 5, width |-> 80, height |-> 20]),
      Op("ADD", "text", 5, AddData),
      Op("ADD", "text", -1, AddData),
      Op("ADD", "video", 0, AddData),
      Op("ADD", "video", 5, AddData),
      Op("ADD", "text", 0, NoData),
      Op("REMOVE", "element", 201, NoData),
      Op("REMOVE", "element", GhostId, NoData),
      OpMany("REMOVE", "elements", <<202, 203>>, NoData),
      OpMany("REMOVE", "elements", <<201, GhostId, 203>>, NoData),
      Op("REMOVE", "all", 0, [elementType |-> "text"]),
      Op("REMOVE", "all", 7, [elementType |-> "text"]),
      Op("REMOVE", "group", 201, NoData),
      Op("MODIFY", "element", 201, [left |-> 50]),
      Op("MODIFY", "element", 203, [left |-> 50, fontSize |-> 32]),
      Op("MODIFY", "element", GhostId, [left |-> 50]),
      OpMany("MODIFY", "batch", <<201, 203>>, [rotate |-> 90]),
      OpMany("MODIFY", "batch", <<201, GhostId, 203>>, [rotate |-> 90]),
      Op("MODIFY", "style", 201, [left |-> 50]),
      Op("CREATE", "slide", 0, [after |-> 0]),
      Op("CREATE", "slide", 0, [afterEnd |-> TRUE, layout |-> "title",
                                template |-> "intro"]),
      Op("CREATE", "slide", 0,
         [after |-> 0,
          elements |-> <<[type |-> "text", x |-> 1, y |-> 1, width |-> 0, height |-> 0],
                         [type |-> "chart", x |-> 2, y |-> 2, width |-> 9, height |-> 9]>>]),
      Op("CREATE", "slide", 0, [after |-> 1]),
      Op("CREATE", "slides", 0, [count |-> 2, after |-> 0]),
      Op("CREATE", "slides", 0, [count |-> 2, afterEnd |-> TRUE]),
      Op("CREATE", "page", 0, [after |-> 0]),
      Op("CREATE", "slide", 0, NoData),
      Op("DELETE", "slide", 0, NoData),
      Op("DELETE", "slide", 5, NoData),
      Op("DELETE", "slide", -1, NoData),
      OpMany("DELETE", "slides", <<0, 1>>, NoData),
      OpMany("DELETE", "slides", <<-1, 0>>, NoData),
      OpMany("DELETE", "slides", <<0, 5>>, NoData),
      Op("DELETE", "slide-range", 0, [from |-> 0, to |-> 0]),
      Op("DELETE", "slide-range", 0, [from |-> 1, to |-> 0]),
      Op("DELETE", "slide-range", 0, [from |-> -1, to |-> 0]),
      Op("DELETE", "slide-range", 0, [from |-> 0, to |-> 5]),
      Op("DELETE", "slide-range", 0, NoData),
      Op("DELETE", "section", 0, NoData),
      Op("REORDER", "slides", 0, [order |-> <<1, 0>>]),
      Op("REORDER", "slides", 0, [order |-> <<0, 2>>]),
      Op("REORDER", "slides", 0, [sortBy |-> "date", direction |-> "ascending"]),
      Op("REORDER", "slides", 0, NoData),
      Op("REORDER", "elements", 0, [order |-> <<202, 201>>]),
      Op("REORDER", "elements", 0, [order |-> <<GhostId, 201>>]),
      Op("REORDER", "elements", 0, [order |-> <<201, 201>>]),
      Op("REORDER", "elements", 5, [order |-> <<202, 201>>]),
      Op("REORDER", "layers", 0, [order |-> <<1, 0>>]),
      Op("APPLY", "theme", 0, [name |-> "dark", colorScheme |-> "night"]),
      Op("APPLY", "theme", 0, NoData),
      Op("APPLY", "transitions", 0,
         [applyToAll |-> TRUE, slideTransition |-> "fade", duration |-> 300]),
      Op("APPLY", "transitions", 0,
         [applyTo |-> <<0, 5>>, slideTransition |-> "fade", duration |-> 300]),
      Op("APPLY", "transitions", 0,
         [applyTo |-> <<1>>, slideTransition |-> "zoom", duration |-> 300]),
      Op("APPLY", "layout", 0, NoData),
      Op("APPLY", "animations", 0, NoData),
      Op("APPLY", "brand", 0, [fonts |-> "Inter"]),
      Op("APPLY", "filter", 0, NoData),
      Op("MERGE", "slide", 0, NoData) }

NextEngine ==
    \/ \E operation \in EngineOps : Submit(operation, MaxOpsEngine, 1)
    \/ Resume
    \/ LoadPresentation(SavedPresentation, MaxDocsEngine)
    \/ Tick(MaxNow)

SpecEngine == Init /\ [][NextEngine]_vars

-----------------------------------------------------------------------------
(* The store over a long run: one text after another is added to the first *)
(* slide, each call awaited, so that the history fills past its limit; the *)
(* run turns to undo, redo and direct saves once the history is nearly full *)

HistOps == { Op("ADD", "text", 0, AddData) }

NearlyFull == Len(history.past) + Len(history.future) >= HistoryLimit - 1

NextHist ==
    \/ \E operation \in HistOps : Submit(operation, MaxOpsHist, 1)
    \/ Resume
    \/ NearlyFull /\ SaveToHistory(MaxExtraHist)
    \/ NearlyFull /\ Undo(MaxExtraHist)
    \/ Redo

SpecHist == Init /\ [][NextHist]_vars

-----------------------------------------------------------------------------
(* The store with a backend that may fail: every telemetry call settles    *)
(* at some later time, in any order, well or badly                         *)

TelemetryOps ==
    { Op("ADD", "text", 0, AddData),
      Op("REMOVE", "element", GhostId, NoData),
      Op("ADD", "text", 5, AddData) }

NextTelemetry ==
    \/ \E operation \in TelemetryOps : Submit(operation, MaxOpsTelemetry, MaxPending)
    \/ Resume
    \/ \E outcome \in FetchOutcomes : Settle(outcome)
    \/ Undo(MaxExtra)
    \/ Redo

SpecTelemetry == Init /\ [][NextTelemetry]_vars

-----------------------------------------------------------------------------
(* The store with undo and redo called several times over, each operation  *)
(* awaited; one of the operations throws after it has changed a slide      *)

UndoOps ==
    { Op("ADD", "text", 0, AddData),
      Op("CREATE", "slide", 0, [after |-> 0]),
      Op("REMOVE", "element", GhostId, NoData),
      Op("APPLY", "transitions", 0,
         [applyTo |-> <<0, 5>>, slideTransition |-> "fade", duration |-> 300]) }

NextUndo ==
    \/ \E operation \in UndoOps : Submit(operation, MaxOpsUndo, 1)
    \/ Resume
    \/ Undo(MaxUndo)
    \/ Redo

SpecUndo == Init /\ [][NextUndo]_vars

-----------------------------------------------------------------------------
(* The store's reorderSlides(newOrder), called with every list of three    *)
(* indices on a document of three slides (and on the one-slide default)    *)

ReorderOps ==
    { OpMany("REORDER", "slides", order, [order |-> order]) :
        order \in [1..3 -> 0..2] }

NextReorder ==
    \/ \E operation \in ReorderOps : Submit(operation, MaxOpsReorder, 1)
    \/ Resume
    \/ LoadPresentation(ThreeSlidePresentation, MaxDocsReorder)

SpecReorder == Init /\ [][NextReorder]_vars

-----------------------------------------------------------------------------
(* The processor of component operations: well-formed operations, ones the *)
(* validator refuses, ones that fail while processed, on two slides        *)

\* the catch block of processOperation: the failure result is built from
\* operation.context.userId, which throws when the operation has no context
failureResult(operation, error) ==
    IF operation.context.present THEN Resolved(FALSE, error) ELSE Rejected

\* processOperation(operation), awaited
ProcessOperation(operation, limit) ==
    /\ processor.calls < limit
    /\ LET r == process(processor.components, operation, processor.nextId, now)
           operationId == processor.calls + 1
           before == [components |-> processor.components,
                      history |-> processor.history]
       IN  processor' =
             IF r.threw
             THEN Processor(r.components, processor.history, r.nid,
                            operationId, operation, before,
                            failureResult(operation, r.error))
             ELSE Processor(r.components,
                            recordInHistory(processor.history, operation,
                                            operationId, r, now),
                            r.nid, operationId, operation, before,
                            Resolved(TRUE, ""))
    /\ UNCHANGED <<presentation, history, operationHistory, pending, emitted,
                   snapLog, now, nextId, opCount, docCount, extraCalls, last,
                   inflight, warnings, refs, validated, canvas, sequence>>

ProcessorOps ==
    { createAddOperation("text", EmptyData, Position(10, 20),
                         createOperationContext("slide-1")),
      createAddOperation("image", EmptyData, Position(0, -1),
                         createOperationContext("slide-1")),
      createAddOperation("text", EmptyData, NoPosition,
                         createOperationContext("slide-1")),
      createAddOperation("text", EmptyData, Position(10, 20), NoContext),
      BlankOperation,
      createRemoveOperation(<<1>>, createOperationContext("slide-1")),
      createRemoveOperation(<<>>, createOperationContext("slide-1")),
      createModifyOperation(1, [x |-> 5], createOperationContext("slide-1")),
      createModifyOperation(0, [x |-> 5], createOperationContext("slide-1")),
      createCreateOperation("slide", EmptyData,
                            createOperationContext("slide-2")),
      createDeleteOperation("", <<1>>, createOperationContext("slide-1")),
      createDeleteOperation("component", <<2>>,
                            createOperationContext("slide-1")),
      createReorderOperation("components",
                             [EmptyData EXCEPT !.newOrder = NewOrder(<<2, 1>>)],
                             createOperationContext("slide-1")),
      createReorderOperation("layers", NoComponentData,
                             createOperationContext("slide-1")),
      createApplyOperation("animation", [EmptyData EXCEPT !.animation = 7],
                           AllTargets, createOperationContext("slide-1")),
      createApplyOperation("theme", EmptyData, NoTargets,
                           createOperationContext("slide-1")) }

NextProcessor ==
    \/ \E operation \in ProcessorOps : ProcessOperation(operation, MaxOpsProcessor)
    \/ Tick(MaxNow)

SpecProcessor == Init /\ [][NextProcessor]_vars

-----------------------------------------------------------------------------
(* The validator alone, given every kind of operation with each of its     *)
(* fields present or absent, with and without a context                    *)

\* AtomicOperationValidator.validate(operation)
Validate(operation) ==
    /\ validated' = Validated(TRUE, operation)
    /\ UNCHANGED <<presentation, history, operationHistory, pending, emitted,
                   snapLog, now, nextId, opCount, docCount, extraCalls, last,
                   inflight, warnings, refs, processor, canvas, sequence>>

Contexts == {NoContext, createOperationContext("slide-1")}

ValidatorOps ==
    { createAddOperation(componentType, data, position, context) :
        componentType \in {"", "text"},
        data \in {NoComponentData, EmptyData},
        position \in {NoPosition, TextualPosition, NegativeTextualPosition,
                      Position(10, 20), Position(-1, 0), Position(0, -1)},
        context \in Contexts }
    \cup { createRemoveOperation(componentIds, context) :
             componentIds \in {<<>>, <<1>>}, context \in Contexts }
    \cup { createModifyOperation(componentId, changes, context) :
             componentId \in {0, 1}, changes \in {<<>>, [x |-> 5]},
             context \in Contexts }
    \cup { createCreateOperation(createType, data, context) :
             createType \in {"", "slide"},
             data \in {NoComponentData, EmptyData}, context \in Contexts }
    \cup { createDeleteOperation(deleteType, targetIds, context) :
             deleteType \in {"", "component"}, targetIds \in {<<>>, <<1>>},
             context \in Contexts }
    \cup { createReorderOperation(reorderType, data, context) :
             reorderType \in {"", "layers"},
             data \in {NoComponentData, EmptyData}, context \in Contexts }
    \cup { createApplyOperation(applyType, data, targets, context) :
             applyType \in {"", "theme"},
             data \in {NoComponentData, EmptyData},
             targets \in {NoTargets, Targets({}), Targets({1}), AllTargets},
             context \in Contexts }
    \cup { [BlankOperation EXCEPT !.operation = kind, !.context = context] :
             kind \in {"", "FLY"}, context \in Contexts }

NextValidator == \E operation \in ValidatorOps : Validate(operation)

SpecValidator == Init /\ [][NextValidator]_vars

-----------------------------------------------------------------------------
(* The engine given the same operation again, each call awaited, while     *)
(* time passes                                                              *)

RepeatOps ==
    { Op("MODIFY", "element", 201, [left |-> 50]),
      OpMany("MODIFY", "batch", <<201, 203>>, [rotate |-> 90]),
      Op("REMOVE", "element", 201, NoData),
      OpMany("REMOVE", "elements", <<202, 203>>, NoData),
      Op("ADD", "text", 0, AddData) }

NextRepeat ==
    \/ \E operation \in RepeatOps : Submit(operation, MaxOpsRepeat, 1)
    \/ Resume
    \/ LoadPresentation(SavedPresentation, MaxDocsRepeat)
    \/ Tick(MaxNow)

SpecRepeat == Init /\ [][NextRepeat]_vars

-----------------------------------------------------------------------------
(* The store with its canvas: slides are created, deleted and reordered    *)
(* through the store's functions and through executeAtomicOperation, each  *)
(* call awaited, the active slide is set, and undo and redo are called     *)

\* createSlide(): the new slide is to follow the active one
CreateSlide(limit) ==
    /\ ExecuteAtomicOperation("createSlide",
                              Op("CREATE", "slide", canvas.activeSlide,
                                 [after |-> canvas.activeSlide]),
                              limit, 1)
    /\ UNCHANGED sequence

\* deleteSlide(slideIndex)
DeleteSlide(slideIndex, limit) ==
    /\ ExecuteAtomicOperation("deleteSlide",
                              Op("DELETE", "slide", slideIndex, NoData),
                              limit, 1)
    /\ UNCHANGED sequence

\* reorderSlides(newOrder)
ReorderSlides(newOrder, limit) ==
    Submit(OpMany("REORDER", "slides", newOrder, [order |-> newOrder]), limit, 1)

\* setActiveSlide(index); an index that is out of range is ignored
SetActiveSlide(index) ==
    /\ pending = <<>>
    /\ index >= 0
    /\ index < Len(presentation.slides)
    /\ canvas' = [canvas EXCEPT !.activeSlide = index]
    /\ UNCHANGED <<presentation, history, operationHistory, pending, emitted,
                   snapLog, now, nextId, opCount, docCount, extraCalls, last,
                   inflight, warnings, refs, componentVars, sequence>>

CanvasOps == { Op("DELETE", "slide", 1, NoData) }

NextCanvas ==
    \/ CreateSlide(MaxOpsCanvas)
    \/ \E slideIndex \in 0..1 : DeleteSlide(slideIndex, MaxOpsCanvas)
    \/ \E newOrder \in {<<0>>, <<1, 0>>} : ReorderSlides(newOrder, MaxOpsCanvas)
    \/ \E operation \in CanvasOps : Submit(operation, MaxOpsCanvas, 1)
    \/ Resume
    \/ \E index \in 0..1 : SetActiveSlide(index)
    \/ Undo(MaxUndoCanvas)
    \/ Redo
    \/ NewPresentation(MaxDocsCanvas)
    \/ LoadPresentation(SavedPresentation, MaxDocsCanvas)

SpecCanvas == Init /\ [][NextCanvas]_vars

-----------------------------------------------------------------------------
(* The aiStore running an operation sequence against the store: atoms that *)
(* succeed, an atom that throws before it changes anything, and an atom    *)
(* that throws after it has changed a slide                                *)

MaxAtoms == 3

SequenceAtoms ==
    { Op("ADD", "text", 0, AddData),
      Op("ADD", "text", 5, AddData),
      Op("CREATE", "slide", 0, [after |-> 0]),
      Op("APPLY", "transitions", 0,
         [applyTo |-> <<0, 5>>, slideTransition |-> "fade", duration |-> 300]) }

OperationSequences == UNION { [1..n -> SequenceAtoms] : n \in 0..MaxAtoms }

\* executeOperationSequence(sequence) up to its first await: with no atoms
\* the loop is not entered and the call returns; otherwise atom 0 is handed
\* to executeAtomicOperation
ExecuteOperationSequence(atoms) ==
    /\ sequence.status = "idle"
    /\ pending = <<>>
    /\ IF atoms = <<>>
       THEN /\ sequence' = Sequence(atoms, 0, "returned", FALSE)
            /\ UNCHANGED <<presentation, history, operationHistory, pending,
                           emitted, snapLog, now, nextId, opCount, docCount,
                           extraCalls, last, inflight, warnings, refs,
                           componentVars, canvas>>
       ELSE /\ ExecuteAtomicOperation("executeOperationSequence", atoms[1],
                                      Len(atoms), 1)
            /\ sequence' = Sequence(atoms, 1, "awaiting", FALSE)

\* the delay after an atom has run out: the loop goes to the next atom, or
\* is over
NextAtom ==
    /\ sequence.status = "delay"
    /\ IF sequence.i = Len(sequence.atoms)
       THEN /\ sequence' = [sequence EXCEPT !.status = "returned"]
            /\ UNCHANGED <<presentation, history, operationHistory, pending,
                           emitted, snapLog, now, nextId, opCount, docCount,
                           extraCalls, last, inflight, warnings, refs,
                           componentVars, canvas>>
       ELSE /\ ExecuteAtomicOperation("executeOperationSequence",
                                      sequence.atoms[sequence.i + 1],
                                      Len(sequence.atoms), 1)
            /\ sequence' = [sequence EXCEPT !.i = @ + 1, !.status = "awaiting"]

NextSequence ==
    \/ \E atoms \in OperationSequences : ExecuteOperationSequence(atoms)
    \/ Resume
    \/ NextAtom
    \/ Tick(MaxNow)

SpecSequence == Init /\ [][NextSequence]_vars

-----------------------------------------------------------------------------
(* Statements about the store and the engine *)

\* the last call was an execute() of kind op and type type
LastWas(op, type) == last.op.op = op /\ last.op.type = type

\* C1: undo() called right after a single awaited executeAtomicOperation
\* that succeeded leaves the live presentation deep-equal to the document
\* as it was before the operation, and redo() called right after that undo
\* leaves it deep-equal to the document as it was after the operation.
C1_UndoRestoresPreOperation ==
    /\ last.step = "undo1" => DeepEqual(presentation, last.pre)
    /\ last.step = "redo1" => DeepEqual(presentation, last.post)

\* a step in which saveToHistory() ran: for the listener or called directly
SavedStep ==
    \/ snapLog' # snapLog
    \/ extraCalls' # extraCalls /\ last'.step = "save"

\* C2: history.past never holds more than 50 entries, and a push onto a
\* full past drops its oldest entry: the 49 newer ones stay, in order,
\* followed by the snapshot pushed.
C2_PastCapped ==
    /\ [](Len(history.past) <= HistoryLimit)
    /\ [][(SavedStep /\ Len(history.past) = HistoryLimit) =>
            history'.past = Tail(history.past) \o <<JsonClone(presentation')>>]_vars

\* the 51st snapshot has been pushed onto a full past
C2_Witness ==
    /\ Len(history.past) = HistoryLimit
    /\ Len(snapLog) > HistoryLimit
    /\ history.past[HistoryLimit] = JsonClone(presentation)
    /\ pending = <<>>

\* every entry of the slide array is a slide
WellFormed(doc) == \A i \in 1..Len(doc.slides) : IsSlide(doc.slides[i])

\* the last call was MODIFY of one element whose id no slide held
ModifiedAbsent ==
    /\ LastWas("MODIFY", "element")
    /\ last.op.target \notin AllElementIds(last.pre)

AddedToMissingSlide ==
    /\ last.op.op = "ADD"
    /\ ~IsSlide(SlideAt(last.pre.slides, last.op.target))

\* C4: ADD whose target slide index does not exist makes execute() throw a
\* not-found error; no slide gains an element (the document is the one the
\* call found), nothing is appended to the engine's operation log, and the
\* listener is not called: no history snapshot, no telemetry call.
C4_AddToMissingSlideThrows ==
    AddedToMissingSlide =>
        /\ last.res = Throw("NotFound")
        /\ last.post = last.pre
        /\ last.step \in {"submit", "failed"} =>
              /\ presentation = last.pre
              /\ operationHistory = last.before.operationHistory
              /\ history = last.before.history
              /\ emitted = last.before.emitted

\* ADD to an index past the last slide has been rejected
C4_Witness ==
    /\ AddedToMissingSlide
    /\ last.step = "failed"
    /\ last.op.target >= Len(last.pre.slides)

\* the types execute() dispatches on, per operation kind
SupportedTypes(op) ==
    CASE op = "ADD"     -> AddTypes
      [] op = "REMOVE"  -> {"element", "elements", "all"}
      [] op = "MODIFY"  -> {"element", "batch"}
      [] op = "CREATE"  -> {"slide", "slides"}
      [] op = "DELETE"  -> {"slide", "slides", "slide-range"}
      [] op = "REORDER" -> {"slides", "elements"}
      [] op = "APPLY"   -> {"theme", "transitions", "layout", "animations", "brand"}
      [] OTHER -> {}

OperationKinds == {"ADD", "REMOVE", "MODIFY", "CREATE", "DELETE", "REORDER", "APPLY"}

\* the last call was one of the seven kinds with a type it does not know
UnrecognisedType ==
    /\ last.op.op \in OperationKinds
    /\ last.op.type \notin SupportedTypes(last.op.op)

C6_ThrowLeavesDocument ==
    Threw(last.res) => Content(last.post) = Content(last.pre)

\* the last call was REMOVE of one element whose id no slide held
RemovedAbsent ==
    /\ LastWas("REMOVE", "element")
    /\ last.op.target \notin AllElementIds(last.pre)

\* C7: REMOVE (type 'element') of an id that is present in no slide returns
\* false and leaves the document unchanged.
C7_RemoveAbsentReturnsFalse ==
    RemovedAbsent =>
        /\ last.res = Bool(FALSE)
        /\ Content(last.post) = Content(last.pre)

\* C8: REMOVE of an absent id has no history side effect: once
\* executeAtomicOperation has returned false, history.past and
\* history.future are what they were before the call.
C8_RemoveAbsentKeepsHistory ==
    (RemovedAbsent /\ last.step = "done" /\ last.res = Bool(FALSE)) =>
        history = last.before.history

\* the last call was ADD of a supported type, with its payload, to an index
\* that holds a slide
ValidAdd ==
    /\ last.op.op = "ADD"
    /\ last.op.type \in AddTypes
    /\ ~IsUndefined(last.op.data)
    /\ IsSlide(SlideAt(last.pre.slides, last.op.target))

Increasing(s) == \A i, j \in 1..Len(s) : i < j => s[i] < s[j]

\* C10: operations are applied to the document in submission order, and in
\* that same order they are appended to the engine's operation log,
\* snapshotted into history and handed to the telemetry call, also when
\* several execute() calls are issued without awaiting the previous one:
\* each of the three records lists the calls by rising submission number,
\* and no call still suspended was submitted before one already recorded.
C10_SubmissionOrder ==
    /\ Increasing([i \in 1..Len(pending) |-> pending[i].seq])
    /\ Increasing([i \in 1..Len(operationHistory) |-> operationHistory[i].seq])
    /\ Increasing(snapLog)
    /\ Increasing(emitted)
    /\ \A i \in 1..Len(pending) :
          /\ \A j \in 1..Len(emitted) : emitted[j] < pending[i].seq
          /\ \A j \in 1..Len(snapLog) : snapLog[j] < pending[i].seq
          /\ \A j \in 1..Len(operationHistory) :
                operationHistory[j].seq < pending[i].seq

\* two calls issued without awaiting have both completed
C10_Witness ==
    /\ last.step = "doneBatch"
    /\ pending = <<>>
    /\ Len(operationHistory) = 2
    /\ Len(emitted) = 2
    /\ Len(snapLog) = 2

\* a telemetry call has just failed
TelemetryFailed == warnings' # warnings

\* C11: a failure of the telemetry call (a rejected fetch or a response that
\* is not ok) never rolls back the mutation already applied, never removes a
\* history entry and never turns the operation's outcome into an error: the
\* step in which the call fails leaves the document, the history, the
\* engine's log and the recorded outcome of the call as they were, and a
\* call whose telemetry failed had resolved with the engine's result.
C11_TelemetryFailureHarmless ==
    /\ [](\A i \in 1..Len(warnings) :
             warnings[i].seq = last.seq =>
                 /\ ~Threw(last.res)
                 /\ last.step \notin {"submit", "failed"})
    /\ [][TelemetryFailed =>
            /\ presentation' = presentation
            /\ history' = history
            /\ operationHistory' = operationHistory
            /\ last' = last]_vars

\* the telemetry call of an ADD that was applied and snapshotted has failed
C11_Witness ==
    /\ warnings # <<>>
    /\ warnings[Len(warnings)].seq = last.seq
    /\ last.op.op = "ADD"
    /\ last.step = "done"
    /\ Len(history.past) >= 1
    /\ presentation = last.post

\* the objects on the two history stacks, past first
Stacked(r) == r.past \o r.future

\* the content of the history entry that is object a
EntryAt(h, r, a) ==
    LET entries == h.past \o h.future
    IN  entries[CHOOSE i \in 1..Len(entries) : Stacked(r)[i] = a]

\* C12: every entry of history.past and history.future is an independent
\* deep copy: no entry is the object that is the live presentation, no two
\* entries are the same object, and no step (operation, undo, redo, save)
\* changes the content of an entry that stays on the stacks.
C12_SnapshotsIndependent ==
    /\ [](/\ refs.live \notin Range(Stacked(refs))
          /\ \A i, j \in 1..Len(Stacked(refs)) :
                i # j => Stacked(refs)[i] # Stacked(refs)[j])
    /\ [][\A a \in Range(Stacked(refs)) \cap Range(Stacked(refs')) :
            EntryAt(history', refs', a) = EntryAt(history, refs, a)]_vars

\* a snapshot is on a stack, and an operation issued since has changed the
\* live document, which now differs from every entry
C12_Witness ==
    /\ Len(Stacked(refs)) >= 1
    /\ last.step = "submit"
    /\ Content(last.post) # Content(last.pre)
    /\ \A a \in Range(Stacked(refs)) :
          Content(EntryAt(history, refs, a)) # Content(presentation)

\* two histories with entries deep-equal position by position
DeepEqualHistory(a, b) ==
    /\ Len(a.past) = Len(b.past)
    /\ Len(a.future) = Len(b.future)
    /\ \A i \in 1..Len(a.past) : DeepEqual(a.past[i], b.past[i])
    /\ \A i \in 1..Len(a.future) : DeepEqual(a.future[i], b.future[i])

\* the store is deep-equal to the one the call before the latest found
BackAtPrior ==
    /\ DeepEqual(presentation, last.prior.presentation)
    /\ DeepEqual(last.prior.presentation, presentation)
    /\ DeepEqualHistory(history, last.prior.history)

MutationExecuted ==
    /\ last.step \in {"done", "doneBatch", "failed"}
    /\ Content(last.post) # Content(last.pre)

\* C14: every mutation executed through the store leaves history.future
\* empty: once an operation has changed the document, canRedo is false and
\* redo() does nothing until the next undo().
C14_MutationClearsFuture ==
    MutationExecuted => (history.future = <<>> /\ ~canRedo)

\* index is no index of doc's slide array
NoSlideIndex(doc, index) == index < 0 \/ index >= Len(doc.slides)

\* the last call was a DELETE given an index or a range outside the slides
DeletedOutOfRange ==
    /\ last.op.op = "DELETE"
    /\ \/ /\ last.op.type = "slide"
          /\ NoSlideIndex(last.pre, last.op.target)
       \/ /\ last.op.type = "slides"
          /\ \E i \in 1..Len(last.op.targets) :
                NoSlideIndex(last.pre, last.op.targets[i])
       \/ /\ last.op.type = "slide-range"
          /\ ~IsUndefined(last.op.data)
          /\ \/ last.op.data.from > last.op.data.to
             \/ last.op.data.from < 0
             \/ last.op.data.to >= Len(last.pre.slides)

\* C15: DELETE with out-of-range input returns false and does not throw:
\* 'slide' with an index below 0 or not below the slide count, 'slides' with
\* an index list that contains such an index, 'slide-range' with from > to,
\* from < 0 or to not below the slide count.
C15_DeleteOutOfRangeFalse == DeletedOutOfRange => last.res = Bool(FALSE)

\* DELETE slides with the list [-1, 0] has returned false on two slides
C15_Witness ==
    /\ DeletedOutOfRange
    /\ last.op.type = "slides"
    /\ last.step = "done"
    /\ last.res = Bool(FALSE)
    /\ Len(last.pre.slides) = 2
    /\ \E i \in 1..Len(last.op.targets) : last.op.targets[i] < 0

\* order lists each of 0..n-1 once
IsPermutation(order, n) ==
    /\ Len(order) = n
    /\ \A k \in 0..(n - 1) : \E j \in 1..n : order[j] = k

\* the permutation that undoes order
Inverse(order) ==
    [i \in 1..Len(order) |-> (CHOOSE j \in 1..Len(order) : order[j] = i - 1) - 1]

\* the document the current engine was created on
Opened ==
    IF docCount = 0 THEN createDefaultPresentation(0, 1) ELSE ThreeSlidePresentation

\* C16: REORDER slides with data.order a permutation p of 0..n-1 on a
\* presentation of n slides returns true and leaves the slide sequence
\* new[i] = old[p[i]] for every i; a second REORDER with the inverse of p
\* leaves the slides in their original order.
C16_ReorderPermutes ==
    /\ (LastWas("REORDER", "slides")
          /\ IsPermutation(last.op.data.order, Len(last.pre.slides))) =>
            /\ last.res = Bool(TRUE)
            /\ Len(last.post.slides) = Len(last.pre.slides)
            /\ \A i \in 1..Len(last.pre.slides) :
                  last.post.slides[i] = last.pre.slides[last.op.data.order[i] + 1]
    /\ (/\ pending = <<>>
        /\ Len(operationHistory) = 2
        /\ LET first == operationHistory[1].operation
               second == operationHistory[2].operation
           IN  /\ first.op = "REORDER" /\ first.type = "slides"
               /\ second.op = "REORDER" /\ second.type = "slides"
               /\ IsPermutation(first.data.order, Len(Opened.slides))
               /\ second.data.order = Inverse(first.data.order)) =>
            presentation.slides = Opened.slides

\* the three slides have been rotated by [2,0,1] and rotated back by [1,2,0]
C16_Witness ==
    /\ pending = <<>>
    /\ Len(operationHistory) = 2
    /\ operationHistory[1].operation.data.order = <<2, 0, 1>>
    /\ operationHistory[2].operation.data.order = <<1, 2, 0>>
    /\ last.step = "done"
    /\ last.pre.slides # Opened.slides
    /\ presentation.slides = ThreeSlidePresentation.slides

\* the geometry of an element
Geometry(element) ==
    [k \in {"left", "top", "width", "height", "rotate"} \cap DOMAIN element |->
        element[k]]

\* what APPLY is to leave alone: which slide is where, which elements each
\* slide holds in which order, and the geometry of each element
Arrangement(doc) ==
    [i \in 1..Len(doc.slides) |->
        IF ~IsSlide(doc.slides[i]) THEN <<doc.slides[i].id, <<>>>>
        ELSE <<doc.slides[i].id,
               [k \in 1..Len(doc.slides[i].elements) |->
                   <<doc.slides[i].elements[k].id,
                     Geometry(doc.slides[i].elements[k])>>]>>]

C18_ElementIdsUnique ==
    \A i \in 1..Len(presentation.slides) :
        IsSlide(presentation.slides[i]) =>
            \A k, l \in 1..Len(presentation.slides[i].elements) :
                k # l => presentation.slides[i].elements[k].id
                            # presentation.slides[i].elements[l].id

\* C19: after any sequence of engine operations (DELETE of any type and
\* REORDER slides among them) on a presentation that had at least one
\* slide, the presentation still has at least one slide.
C19_AtLeastOneSlide == Len(presentation.slides) >= 1

\* the last call of processOperation was given an operation for which the
\* validator reports at least one error
Refused == processor.calls > 0 /\ Len(processor.validation.errors) >= 1

\* C20: processOperation, given an operation for which the validator
\* reports at least one error, changes nothing in the stored components of
\* any slide, records no history entry, and reports the failure as a result
\* with success = false.
C20_RefusedOperationFailsCleanly ==
    Refused =>
        /\ processor.components = processor.before.components
        /\ processor.history = processor.before.history
        /\ processor.outcome.settled = "resolved"
        /\ ~processor.outcome.success

\* a required field of the operation's kind is missing
RequiredMissing(operation) ==
    CASE operation.operation = "ADD" ->
           \/ operation.componentType = ""
           \/ ~operation.data.present
           \/ ~operation.position.present
           \/ ~operation.position.numeric
      [] operation.operation = "REMOVE" -> operation.componentIds = <<>>
      [] operation.operation = "MODIFY" -> operation.componentId = 0
      [] operation.operation = "CREATE" ->
           operation.createType = "" \/ ~operation.data.present
      [] operation.operation = "DELETE" ->
           operation.deleteType = "" \/ operation.targetIds = <<>>
      [] operation.operation = "REORDER" ->
           operation.reorderType = "" \/ ~operation.data.present
      [] operation.operation = "APPLY" ->
           operation.applyType = "" \/ ~operation.data.present
      [] OTHER -> FALSE

NegativePosition(operation) ==
    /\ operation.operation = "ADD"
    /\ operation.position.present
    /\ (operation.position.x < 0 \/ operation.position.y < 0)

EmptyChanges(operation) ==
    operation.operation = "MODIFY" /\ DOMAIN operation.changes = {}

EmptyTargets(operation) ==
    /\ operation.operation = "APPLY"
    /\ (~operation.targets.present
          \/ (~operation.targets.all /\ operation.targets.ids = {}))

\* valid is false exactly when the operation kind, the context or a required
\* field is missing
ValidExactly ==
    ~validated.validation.valid
        <=> \/ validated.operation.operation = ""
            \/ ~validated.operation.context.present
            \/ RequiredMissing(validated.operation)

\* C21 (as stated): validate returns valid = false exactly when operation or
\* context is missing or a required field of the operation's kind is
\* missing; a negative ADD position, empty MODIFY changes and empty APPLY
\* targets each add a warning and never make valid false.
C21_ValidExactlyAndWarns ==
    validated.called =>
        /\ ValidExactly
        /\ (\/ NegativePosition(validated.operation)
            \/ EmptyChanges(validated.operation)
            \/ EmptyTargets(validated.operation))
              => validated.validation.warnings # <<>>

\* C21 (amended): as stated, except that a negative ADD position adds its
\* warning only when the operation has a context; no other condition adds
\* a warning.
C21_ValidExactlyAndWarnsWithContext ==
    validated.called =>
        /\ ValidExactly
        /\ (\/ (NegativePosition(validated.operation)
                  /\ validated.operation.context.present)
            \/ EmptyChanges(validated.operation)
            \/ EmptyTargets(validated.operation))
              <=> validated.validation.warnings # <<>>

\* a complete ADD at a negative position was validated: valid, one warning
C21_Witness ==
    /\ validated.called
    /\ validated.operation.operation = "ADD"
    /\ validated.operation.position = Position(-1, 0)
    /\ validated.validation.valid
    /\ validated.validation.warnings = <<"POSITION_OUT_OF_BOUNDS">>

\* C30: processOperation never rejects: for every input operation, one with
\* a missing context or missing fields included, the promise resolves to a
\* result, with success = false and an error message when validation or
\* processing fails.
C30_ProcessOperationNeverRejects ==
    processor.calls > 0 =>
        /\ processor.outcome.settled = "resolved"
        /\ ~processor.validation.valid => ~processor.outcome.success
        /\ ~processor.outcome.success => processor.outcome.error # ""

\* the last call was REORDER elements with an order list, on a slide that
\* the document had
ReorderedElements ==
    /\ LastWas("REORDER", "elements")
    /\ ~IsUndefined(last.op.data)
    /\ HasKey(last.op.data, "order")
    /\ IsSlide(SlideAt(last.pre.slides, last.op.target))

\* C22: REORDER elements on an existing slide with data.order = L leaves
\* that slide's element sequence equal to exactly the elements whose ids
\* appear in L, in L's order: elements whose ids are missing from L are
\* dropped, ids in L that are not on the slide are ignored, and no other
\* slide changes.
C22_ReorderElementsFollowsOrder ==
    ReorderedElements =>
        LET i == last.op.target + 1
            was == last.pre.slides[i].elements
            is == last.post.slides[i].elements
            onSlide(id) == \E k \in 1..Len(was) : was[k].id = id
            kept == SelectSeq(last.op.data.order, onSlide)
        IN  /\ last.res = Bool(TRUE)
            /\ Len(is) = Len(kept)
            /\ \A k \in 1..Len(is) :
                  /\ is[k].id = kept[k]
                  /\ \E j \in 1..Len(was) : was[j] = is[k]
            /\ Len(last.post.slides) = Len(last.pre.slides)
            /\ \A j \in 1..Len(last.pre.slides) :
                  j # i => last.post.slides[j] = last.pre.slides[j]

\* an order naming an id that is on no slide and one of the two elements of
\* the slide has left the slide with that one element
C22_Witness ==
    /\ ReorderedElements
    /\ last.op.data.order = <<GhostId, 201>>
    /\ Len(last.pre.slides) = 2
    /\ Len(last.pre.slides[1].elements) = 2
    /\ Len(last.post.slides[1].elements) = 1
    /\ last.post.slides[1].elements[1].id = 201

\* the last call was CREATE of the given type with data.after a slide index
\* of the document, or 'end'
CreatedAfter(type) ==
    /\ LastWas("CREATE", type)
    /\ ~IsUndefined(last.op.data)
    /\ \/ HasKey(last.op.data, "afterEnd")
       \/ /\ HasKey(last.op.data, "after")
          /\ last.op.data.after \in 0..(Len(last.pre.slides) - 1)

\* where the statement puts the first created slide, counted from 0
InsertionPoint ==
    IF HasKey(last.op.data, "afterEnd") THEN Len(last.pre.slides)
    ELSE last.op.data.after + 1

\* the document holds n new slides from the insertion point on, in creation
\* order, and around them the slides it had, unchanged and in their order
InsertedSlides(n) ==
    LET at == InsertionPoint
        was == last.pre.slides
        is == last.post.slides
    IN  /\ Len(is) = Len(was) + n
        /\ \A j \in 1..at : is[j] = was[j]
        /\ \A j \in (at + 1)..Len(was) : is[j + n] = was[j]
        /\ \A k \in 1..n :
              /\ IsSlide(is[at + k])
              /\ \A j \in 1..Len(was) : was[j].id # is[at + k].id
              /\ \A l \in 1..(k - 1) : is[at + l].id < is[at + k].id

\* C23: CREATE slide inserts exactly one new slide at index data.after + 1
\* when data.after is a slide index, or after the last slide when data.after
\* is 'end'; slides before the insertion point keep their index, later
\* slides shift by one, existing slides' contents are unchanged, and the
\* created slide is the return value. CREATE slides with count = n inserts
\* n slides that way, contiguous and in creation order.
C23_CreateSlideInsertsAfter ==
    /\ CreatedAfter("slide") =>
          /\ InsertedSlides(1)
          /\ last.res = Return("slide", last.post.slides[InsertionPoint + 1].id)
    /\ (CreatedAfter("slides") /\ HasKey(last.op.data, "count")) =>
          /\ InsertedSlides(last.op.data.count)
          /\ last.res.kind = "return"

\* two slides were created after the first of two: the second slide is now
\* the fourth
C23_Witness ==
    /\ CreatedAfter("slides")
    /\ last.op.data = [count |-> 2, after |-> 0]
    /\ Len(last.pre.slides) = 2
    /\ Len(last.post.slides) = 4
    /\ last.post.slides[1] = last.pre.slides[1]
    /\ last.post.slides[4] = last.pre.slides[2]

\* the last call has returned, and it was given the operation that the call
\* before it was given; last.pre is the document the first of the two left
Repeated(op, types) ==
    /\ last.step = "done"
    /\ last.op.op = op
    /\ last.op.type \in types
    /\ Len(operationHistory) >= 2
    /\ operationHistory[Len(operationHistory)].operation = last.op
    /\ operationHistory[Len(operationHistory) - 1].operation = last.op

\* the slides without the updatedAt stamp of each
Unstamped(doc) == Content(doc).slides

\* C24 (as stated): executing the same MODIFY twice in succession leaves
\* the slides and elements equal to the state after the first execution,
\* and a second REMOVE of an already-removed id changes no slide or element.
C24_RepeatChangesNothing ==
    /\ Repeated("MODIFY", {"element", "batch"}) =>
          last.post.slides = last.pre.slides
    /\ Repeated("REMOVE", {"element", "elements"}) =>
          last.post.slides = last.pre.slides

\* C24 (amended): the same MODIFY executed twice in succession leaves every
\* slide and element as the first execution left it, but for the updatedAt
\* stamp of the slides; a second REMOVE of an already-removed id changes
\* no slide or element, stamps included.
C24_RepeatChangesOnlyStamps ==
    /\ Repeated("MODIFY", {"element", "batch"}) =>
          Unstamped(last.post) = Unstamped(last.pre)
    /\ Repeated("REMOVE", {"element", "elements"}) =>
          last.post.slides = last.pre.slides

\* the same MODIFY of an element that the document holds was executed twice,
\* the second time later than the first
C24_Witness ==
    /\ Repeated("MODIFY", {"element"})
    /\ last.res = Bool(TRUE)
    /\ last.pre.slides[1].elements[1].left = 50
    /\ last.post.slides[1].elements[1].left = 50
    /\ last.post.slides[1].updatedAt > last.pre.slides[1].updatedAt

\* a call takes its snapshot while the call submitted right after it, the
\* latest one, is suspended with its mutation applied; last.pre is the
\* document that later call found
SnapshotWithLaterCallPending ==
    /\ snapLog' # snapLog
    /\ Len(pending) >= 2
    /\ pending[2].seq = last.seq
    /\ ~Threw(pending[1].result)

\* C25: when several execute() calls are issued back-to-back without
\* awaiting, each call's post-mutation steps (log append, updatedAt stamp,
\* listener notification, history snapshot) complete before the next
\* call's mutation is applied, so the snapshot recorded for operation k
\* contains the effect of no operation submitted after k.
C25_SnapshotExcludesLaterCalls ==
    [][SnapshotWithLaterCallPending =>
          Content(history'.past[Len(history'.past)])
              = Content(JsonClone(last.pre))]_vars

\* the operations whose false result the statement is about
ReportsFalse ==
    /\ last.res = Bool(FALSE)
    /\ \/ last.op.op = "REMOVE" /\ last.op.type \in {"element", "elements", "all"}
       \/ last.op.op = "MODIFY" /\ last.op.type \in {"element", "batch"}
       \/ last.op.op = "DELETE"
             /\ last.op.type \in {"slide", "slides", "slide-range"}
       \/ last.op.op = "REORDER"

\* C26: whenever execute() returns false for REMOVE (element, elements,
\* all), MODIFY (element, batch), DELETE (slide, slides, slide-range) or
\* REORDER, the slide sequence and every slide's elements are identical to
\* what they were before the call.
C26_FalseMeansUntouched ==
    ReportsFalse => Content(last.post).slides = Content(last.pre).slides

\* the step is a call of undo(), of redo(), that found something to restore
UndoStep == last'.step \in {"undo", "undo1"} /\ history' # history

RedoStep == last'.step \in {"redo", "redo1"} /\ history' # history

\* C27: in every reachable state of the store, history.past.length +
\* history.future.length <= 50; undo() and redo() each preserve that sum,
\* moving exactly one entry between the stacks.
C27_HistorySumCapped ==
    /\ [](Len(history.past) + Len(history.future) <= HistoryLimit)
    /\ [][UndoStep =>
            /\ Len(history'.past) = Len(history.past) - 1
            /\ history'.past = SubSeq(history.past, 1, Len(history.past) - 1)
            /\ Len(history'.future) = Len(history.future) + 1
            /\ Tail(history'.future) = history.future]_vars
    /\ [][RedoStep =>
            /\ Len(history'.past) = Len(history.past) + 1
            /\ SubSeq(history'.past, 1, Len(history.past)) = history.past
            /\ Len(history'.future) = Len(history.future) - 1
            /\ history'.future = Tail(history.future)]_vars

\* undo() was called on a full history: the two stacks hold 50 entries
\* between them, one of them on future
C27_Witness ==
    /\ Len(history.past) + Len(history.future) = HistoryLimit
    /\ Len(history.future) >= 1
    /\ last.step \in UndoRedoSteps

\* C28: in every reachable state of the store with at least one slide,
\* canvas.activeSlide is a valid slide index (0 <= activeSlide <
\* slides.length), after any sequence of createSlide, deleteSlide,
\* reorderSlides, executeAtomicOperation, setActiveSlide, undo, redo,
\* newPresentation and loadPresentation (every call awaited).
C28_ActiveSlideValid ==
    (pending = <<>> /\ Len(presentation.slides) >= 1) =>
        /\ canvas.activeSlide >= 0
        /\ canvas.activeSlide < Len(presentation.slides)

\* the number of atoms of the sequence whose execution did not throw, once
\* the call has returned
AtomsDone ==
    IF sequence.broke THEN sequence.i - 1 ELSE Len(sequence.atoms)

\* the number of atoms handed to executeAtomicOperation, once the call has
\* returned
AtomsTried ==
    IF sequence.broke THEN sequence.i ELSE Len(sequence.atoms)

\* C29: executeOperationSequence executes the atoms of a sequence in index
\* order, one at a time, and stops at the first atom whose execution
\* throws: the atoms before it remain applied (each logged and snapshotted,
\* none rolled back), the failing atom and every atom after it are never
\* applied (the document is as the atoms before it left it, and no later
\* atom was executed), and the call returns instead of throwing.
C29_SequenceStopsAtFirstThrow ==
    /\ Len(pending) <= 1
    /\ sequence.status = "returned" =>
         /\ opCount = AtomsTried
         /\ Len(operationHistory) = AtomsDone
         /\ \A j \in 1..AtomsDone :
                /\ operationHistory[j].seq = j
                /\ operationHistory[j].operation = sequence.atoms[j]
         /\ snapLog = [j \in 1..AtomsDone |-> j]
         /\ sequence.broke =>
                /\ last.step = "failed"
                /\ last.op = sequence.atoms[sequence.i]
                /\ Content(presentation) = Content(last.pre)

====
